---- MODULE Spec2Model ----
(***************************************************************************)
(* A model of the basic runtime schema engine (src/basic): the type        *)
(* descriptors of types.py, the record values and record descriptors of    *)
(* struct.py, and the conversion to and from the JSON and BSON targets.    *)
(*                                                                         *)
(* Python values are tagged records [t |-> <type name>, v |-> <payload>].  *)
(* A str is a sequence of characters, a bytes a sequence of 0..255, a list *)
(* or tuple a sequence of values, a dict a sequence of <<key, value>>      *)
(* pairs in insertion order.  A raised exception is a value of tag         *)
(* "error" that every caller hands on unchanged.                           *)
(***************************************************************************)
EXTENDS Integers, Sequences, FiniteSets, TLC

VARIABLES
    dsc,    \* conversion run: the descriptor D
    val,    \* conversion run: the input value
    tgt,    \* conversion run: the target (JSON or BSON)
    enc,    \* conversion run: result of D.to_jsony(val, tgt)
    dec,    \* conversion run: result of D.from_jsony(...)
    app,    \* conversion run: result of D.apply(val, func)
    pc,     \* conversion run: position and the operation done
    rec,    \* record run: the record under test (a Struct instance)
    res,    \* record run: outcome of the last operation
    heap,   \* descriptor run: the descriptor objects, by reference
    hres,   \* descriptor run: outcome of the last operation
    env,    \* the process: the iteration order of its sets of names
            \* (hash seed) and the reading of its clock
    sig     \* reflection run: the class reflected on, its __init__
            \* parameters and the overrides given to class_type

vars == <<dsc, val, tgt, enc, dec, app, pc, rec, res, heap, hres, env, sig>>

(***************************************************************************)
(* Bounds of the model.                                                    *)
(***************************************************************************)
\* Containers of the input values hold at most this many elements.
MaxLen == 2
\* Integer data values range over 0..MaxInt.
MaxInt == 1
\* The descriptor run allocates at most this many descriptor objects.
MaxHeap == 3

(***************************************************************************)
(* Python values.                                                          *)
(***************************************************************************)
None == [t |-> "none", v |-> 0]
IntV(i) == [t |-> "int", v |-> i]
BoolV(b) == [t |-> "bool", v |-> b]
FloatV(i) == [t |-> "float", v |-> i]
StrV(s) == [t |-> "str", v |-> s]
BytesV(b) == [t |-> "bytes", v |-> b]
DatetimeV(s, us) == [t |-> "datetime", v |-> <<s, us>>]
\* A path is [root |-> anchored at "/", parts |-> its components].
PathV(p) == [t |-> "path", v |-> p]
ListV(items) == [t |-> "list", v |-> items]
TupleV(items) == [t |-> "tuple", v |-> items]
DictV(pairs) == [t |-> "dict", v |-> pairs]
DefaultDictV(pairs) == [t |-> "defaultdict", v |-> pairs]
\* A Struct instance: the keys of its _schema in schema order, its _fields
\* as <<name, value>> pairs in insertion order, and the other entries of
\* its __dict__ (attrs), empty after construction.
StructV(names, fields) ==
    [t |-> "struct", v |-> [schema |-> names, fields |-> fields, attrs |-> <<>>]]
Error(kind) == [t |-> "error", v |-> kind]
IsError(x) == x.t = "error"

\* utils.py _Keyword instances: the default-policy sentinels and the targets.
DefaultValue(name) == [t |-> "DefaultValue", v |-> name]
Target(name) == [t |-> "Target", v |-> name]
REQUIRED == DefaultValue("REQUIRED")
EMPTY == DefaultValue("EMPTY")
MISSING == DefaultValue("MISSING")
NOW == DefaultValue("NOW")
JSON == Target("JSON")
BSON == Target("BSON")

\* A str of one token, used for field names and short texts.
Text(s) == StrV(<<s>>)

Range(s) == {s[i] : i \in DOMAIN s}

\* The first exception raised while a sequence of results was computed
\* left to right, or None when there was none.
FirstError(items) ==
    IF \E i \in DOMAIN items : IsError(items[i])
    THEN items[CHOOSE i \in DOMAIN items :
                   IsError(items[i]) /\ \A j \in 1..(i - 1) : ~IsError(items[j])]
    ELSE None

\* The numeric value of an int, bool or float.
IsNumber(x) == x.t \in {"int", "bool", "float"}
Num(x) == IF x.t = "bool" THEN (IF x.v THEN 1 ELSE 0) ELSE x.v

\* dict.get on a pair sequence keyed by field name.
HasField(fields, name) == \E i \in DOMAIN fields : fields[i][1] = name
FieldGet(fields, name, dflt) ==
    IF HasField(fields, name)
    THEN fields[CHOOSE i \in DOMAIN fields : fields[i][1] = name][2]
    ELSE dflt
FieldNames(fields) == {fields[i][1] : i \in DOMAIN fields}

\* The (name, value) pairs of _fields as they were inserted.
_cmp_repr_by_insertion(self) == self.v.fields

\* Struct._cmp_repr (struct.py 43-47): one (name, value or MISSING) pair per
\* field of the schema, in the order of the schema.
_cmp_repr(self) ==
    [i \in DOMAIN self.v.schema |->
        <<self.v.schema[i], FieldGet(self.v.fields, self.v.schema[i], MISSING)>>]

RECURSIVE PyEq(_, _)
\* Python's a == b on the modelled values.
PyEq(a, b) ==
    IF IsNumber(a) /\ IsNumber(b) THEN Num(a) = Num(b)
    ELSE IF a.t \in {"list", "tuple"} THEN
        /\ b.t = a.t
        /\ Len(a.v) = Len(b.v)
        /\ \A i \in DOMAIN a.v : PyEq(a.v[i], b.v[i])
    ELSE IF a.t \in {"dict", "defaultdict"} THEN
        /\ b.t \in {"dict", "defaultdict"}
        /\ Len(a.v) = Len(b.v)
        /\ \A i \in DOMAIN a.v : \E j \in DOMAIN b.v :
               PyEq(a.v[i][1], b.v[j][1]) /\ PyEq(a.v[i][2], b.v[j][2])
    ELSE IF a.t = "struct" THEN
        \* Struct.__eq__: isinstance(other, Struct), then the tuples
        /\ b.t = "struct"
        /\ LET ra == _cmp_repr(a)
               rb == _cmp_repr(b)
           IN /\ Len(ra) = Len(rb)
              /\ \A i \in DOMAIN ra : ra[i][1] = rb[i][1] /\ PyEq(ra[i][2], rb[i][2])
    ELSE a.t = b.t /\ a.v = b.v

RECURSIVE Hashable(_)
\* Whether hash(x) succeeds: lists and dicts are unhashable, a tuple or a
\* Struct (struct.py 32-33, over _cmp_repr) is as hashable as its content.
Hashable(x) ==
    IF x.t \in {"list", "dict", "defaultdict"} THEN FALSE
    ELSE IF x.t = "tuple" THEN \A i \in DOMAIN x.v : Hashable(x.v[i])
    ELSE IF x.t = "struct" THEN
        LET r == _cmp_repr(x) IN \A i \in DOMAIN r : Hashable(r[i][2])
    ELSE TRUE

RECURSIVE HashCode(_)
\* The hash code of a hashable value, as a canonical value: equal numbers of
\* any type hash alike, a tuple hashes its items in order, and a Struct
\* hashes the tuple _cmp_repr (struct.py 32-33).
HashCode(x) ==
    IF IsNumber(x) THEN IntV(Num(x))
    ELSE IF x.t = "tuple" THEN TupleV([i \in DOMAIN x.v |-> HashCode(x.v[i])])
    ELSE IF x.t = "struct" THEN
        LET r == _cmp_repr(x)
        IN TupleV([i \in DOMAIN r |-> TupleV(<<Text(r[i][1]), HashCode(r[i][2])>>)])
    ELSE x

\* hash(x): the code, or TypeError for an unhashable value.
Hash(x) == IF Hashable(x) THEN HashCode(x) ELSE Error("TypeError: unhashable")

RECURSIVE DictInsert(_, _, _)
\* d[k] = v on a pair sequence: an equal key keeps its place and takes v.
DictInsert(pairs, k, v) ==
    IF pairs = <<>> THEN << <<k, v>> >>
    ELSE IF PyEq(pairs[1][1], k) THEN << <<pairs[1][1], v>> >> \o Tail(pairs)
    ELSE <<pairs[1]>> \o DictInsert(Tail(pairs), k, v)

RECURSIVE DictBuild(_, _)
\* A dict comprehension {k: v for ...} over already computed <<k, v>>
\* results: the first exception among them is raised, as is TypeError for
\* an unhashable key.
DictBuild(acc, pairs) ==
    IF pairs = <<>> THEN DictV(acc)
    ELSE LET k == pairs[1][1]
             v == pairs[1][2]
         IN IF IsError(k) THEN k
            ELSE IF IsError(v) THEN v
            ELSE IF ~Hashable(k) THEN Error("TypeError: unhashable")
            ELSE DictBuild(DictInsert(acc, k, v), Tail(pairs))

(***************************************************************************)
(* Text forms: str(), datetime.fromisoformat, pathlib.Path, base64.b85*.   *)
(***************************************************************************)
Digits == <<"0", "1", "2", "3", "4", "5", "6", "7", "8", "9">>
IsDigit(c) == \E i \in DOMAIN Digits : Digits[i] = c
DigitValue(c) == (CHOOSE i \in DOMAIN Digits : Digits[i] = c) - 1

RECURSIVE Decimal(_)
\* The decimal digits of n >= 0.
Decimal(n) == IF n < 10 THEN <<Digits[n + 1]>> ELSE Decimal(n \div 10) \o <<Digits[(n % 10) + 1]>>

RECURSIVE Join(_, _)
\* sep.join(parts), over character sequences.
Join(parts, sep) ==
    IF parts = <<>> THEN <<>>
    ELSE IF Len(parts) = 1 THEN parts[1]
    ELSE parts[1] \o sep \o Join(Tail(parts), sep)

RECURSIVE Split(_, _, _)
\* s.split(sep) for a one-character sep: cur is the piece being read.
Split(s, sep, cur) ==
    IF s = <<>> THEN <<cur>>
    ELSE IF s[1] = sep THEN <<cur>> \o Split(Tail(s), sep, <<>>)
    ELSE Split(Tail(s), sep, Append(cur, s[1]))

RECURSIVE Keep(_, _)
Keep(s, drop) ==
    IF s = <<>> THEN <<>>
    ELSE IF s[1] \in drop THEN Keep(Tail(s), drop)
    ELSE <<s[1]>> \o Keep(Tail(s), drop)

\* pathlib.Path(text): empty and "." components are dropped, a leading "/"
\* anchors the path.
PathNew(text) ==
    PathV([root |-> text # <<>> /\ text[1] = "/",
           parts |-> Keep(Split(text, "/", <<>>), {<<>>, <<".">>})])
\* str(path)
PathStr(p) ==
    IF p.v.root THEN <<"/">> \o Join(p.v.parts, <<"/">>)
    ELSE IF p.v.parts = <<>> THEN <<".">>
    ELSE Join(p.v.parts, <<"/">>)

\* The modelled datetimes are 2020-01-01 00:00:0s.00000u, s and u digits.
IsoDate == <<"2", "0", "2", "0", "-", "0", "1", "-", "0", "1">>
IsoMinute == <<"0", "0", ":", "0", "0", ":", "0">>
IsoMicro == <<".", "0", "0", "0", "0", "0">>
\* str(datetime): isoformat(sep=" "), the microseconds left out when 0.
DatetimeStr(d) ==
    IsoDate \o <<" ">> \o IsoMinute \o <<Digits[d.v[1] + 1]>>
        \o (IF d.v[2] = 0 THEN <<>> ELSE IsoMicro \o <<Digits[d.v[2] + 1]>>)
\* datetime.fromisoformat(text): the date, then optionally any one
\* separator character and the time, then optionally the microseconds.
FromIsoFormat(text) ==
    LET n == Len(text)
        bad == Error("ValueError: Invalid isoformat string")
    IN IF n < 10 \/ SubSeq(text, 1, 10) # IsoDate THEN bad
       ELSE IF n = 10 THEN DatetimeV(0, 0)
       ELSE IF n \notin {19, 26} THEN bad
       ELSE IF SubSeq(text, 12, 18) # IsoMinute \/ ~IsDigit(text[19]) THEN bad
       ELSE IF n = 19 THEN DatetimeV(DigitValue(text[19]), 0)
       ELSE IF SubSeq(text, 20, 25) # IsoMicro \/ ~IsDigit(text[26]) THEN bad
       ELSE DatetimeV(DigitValue(text[19]), DigitValue(text[26]))

\* base64._b85alphabet (the grave accent, which a string of this language
\* cannot hold, is the token "grave").
B85Alphabet ==
    <<"0", "1", "2", "3", "4", "5", "6", "7", "8", "9",
      "A", "B", "C", "D", "E", "F", "G", "H", "I", "J", "K", "L", "M",
      "N", "O", "P", "Q", "R", "S", "T", "U", "V", "W", "X", "Y", "Z",
      "a", "b", "c", "d", "e", "f", "g", "h", "i", "j", "k", "l", "m",
      "n", "o", "p", "q", "r", "s", "t", "u", "v", "w", "x", "y", "z",
      "!", "#", "$", "%", "&", "(", ")", "*", "+", "-", ";", "<", "=",
      ">", "?", "@", "^", "_", "grave", "{", "|", "}", "~">>
IsB85(c) == \E i \in DOMAIN B85Alphabet : B85Alphabet[i] = c
B85Value(c) == (CHOOSE i \in DOMAIN B85Alphabet : B85Alphabet[i] = c) - 1

RECURSIVE Repeat(_, _)
Repeat(x, n) == IF n = 0 THEN <<>> ELSE <<x>> \o Repeat(x, n - 1)

RECURSIVE DivMod(_, _, _, _)
\* Long division of a base-256 numeral (most significant digit first) by
\* m: <<quotient numeral, remainder>>.
DivMod(bytes, m, carry, quot) ==
    IF bytes = <<>> THEN <<quot, carry>>
    ELSE LET cur == carry * 256 + bytes[1]
         IN DivMod(Tail(bytes), m, cur % m, Append(quot, cur \div m))

RECURSIVE ToBase85(_, _)
\* The n least significant base-85 digits of a base-256 numeral.
ToBase85(bytes, n) ==
    IF n = 0 THEN <<>>
    ELSE LET qr == DivMod(bytes, 85, 0, <<>>)
         IN ToBase85(qr[1], n - 1) \o <<B85Alphabet[qr[2] + 1]>>

RECURSIVE MulAdd(_, _, _)
\* numeral * 85 + carry on a base-256 numeral, least significant digit
\* last: <<numeral, carry out>>.
MulAdd(bytes, carry, done) ==
    IF bytes = <<>> THEN <<done, carry>>
    ELSE LET cur == bytes[Len(bytes)] * 85 + carry
         IN MulAdd(SubSeq(bytes, 1, Len(bytes) - 1), cur \div 256, <<cur % 256>> \o done)

RECURSIVE FromBase85(_, _)
\* The 4-byte numeral of a group of base-85 characters, or an error when a
\* character is not of the alphabet or the number exceeds 32 bits.
FromBase85(chars, acc) ==
    IF chars = <<>> THEN BytesV(acc)
    ELSE IF ~IsB85(chars[1]) THEN Error("ValueError: bad base85 character")
    ELSE LET r == MulAdd(acc, B85Value(chars[1]), <<>>)
         IN IF r[2] # 0 THEN Error("ValueError: base85 overflow")
            ELSE FromBase85(Tail(chars), r[1])

RECURSIVE B85EncodeChunks(_)
B85EncodeChunks(bytes) ==
    IF bytes = <<>> THEN <<>>
    ELSE ToBase85(SubSeq(bytes, 1, 4), 5) \o B85EncodeChunks(SubSeq(bytes, 5, Len(bytes)))

\* base64.b85encode(b).decode("ascii"): b is padded with zero bytes to a
\* multiple of 4 and as many characters are cut from the end.
B85Encode(bytes) ==
    LET padding == (4 - (Len(bytes) % 4)) % 4
        chars == B85EncodeChunks(bytes \o Repeat(0, padding))
    IN SubSeq(chars, 1, Len(chars) - padding)

RECURSIVE B85DecodeChunks(_, _)
B85DecodeChunks(chars, out) ==
    IF chars = <<>> THEN BytesV(out)
    ELSE LET chunk == FromBase85(SubSeq(chars, 1, 5), <<0, 0, 0, 0>>)
         IN IF IsError(chunk) THEN chunk
            ELSE B85DecodeChunks(SubSeq(chars, 6, Len(chars)), out \o chunk.v)

\* base64.b85decode(text): text is padded with "~" to a multiple of 5 and
\* as many bytes are cut from the end.
B85Decode(chars) ==
    LET padding == (5 - (Len(chars) % 5)) % 5
        out == B85DecodeChunks(chars \o Repeat("~", padding), <<>>)
    IN IF IsError(out) THEN out
       ELSE BytesV(SubSeq(out.v, 1, Len(out.v) - padding))

\* str(x).  The text of a value that only reaches str() by misuse of a
\* descriptor (a container, a bytes, a record) is one opaque token.
PyStr(x) ==
    CASE x.t = "str" -> x.v
      [] x.t = "int" -> Decimal(x.v)
      [] x.t = "float" -> Decimal(x.v) \o <<".", "0">>
      [] x.t = "bool" -> IF x.v THEN <<"T", "r", "u", "e">> ELSE <<"F", "a", "l", "s", "e">>
      [] x.t = "datetime" -> DatetimeStr(x)
      [] x.t = "path" -> PathStr(x)
      [] OTHER -> <<x.t>>

(***************************************************************************)
(* Type descriptors (types.py, struct.py).  A descriptor object is a       *)
(* record of its attributes: cls its Python class, klass the name of       *)
(* _klass, dflt its _default, specialized/parameters its _parameters       *)
(* (specialized = FALSE is _parameters None), schema its _schema as        *)
(* <<name, descriptor>> pairs in order, name its _name, type its _type     *)
(* (<<>> is None); convert_class, empty_constructible, args_name and       *)
(* kwargs_name are the attributes of a ClassType ("" is None).             *)
(***************************************************************************)
Blank ==
    [cls |-> "BasicType", klass |-> "None", dflt |-> REQUIRED,
     specialized |-> FALSE, parameters |-> <<>>, schema |-> <<>>,
     name |-> "", toplevel_path |-> "", type |-> <<>>,
     convert_class |-> "", empty_constructible |-> FALSE,
     args_name |-> "", kwargs_name |-> ""]

\* BasicType.__init__ of class cls.
BasicType(cls, klass) == [Blank EXCEPT !.cls = cls, !.klass = klass]

Int_ == BasicType("BuiltinType", "int")
Str == BasicType("BuiltinType", "str")
Bool == BasicType("BuiltinType", "bool")
Any_ == BasicType("_Any", "object")
Bytes == BasicType("_Bytes", "bytes")
Datetime == BasicType("_Datetime", "datetime")
Float == BasicType("_Float", "float")
Path == BasicType("_Path", "Path")
List == BasicType("_List", "list")
Dict == BasicType("_Dict", "dict")
DefaultDict == BasicType("_DefaultDict", "defaultdict")
Tuple == BasicType("_Tuple", "tuple")

\* struct.struct(name, **schema): the class it creates is named name.
struct(name, schema) ==
    [Blank EXCEPT !.cls = "StructType", !.klass = name, !.schema = schema,
                  !.name = name, !.toplevel_path = "__main__." \o name]

\* Placeholder.__init__
Placeholder(name) == [Blank EXCEPT !.cls = "Placeholder", !.name = name]

TemplateClasses == {"_List", "_Dict", "_DefaultDict", "_Tuple"}
\* StructType and its subclass ClassType (inspection.py 12)
StructClasses == {"StructType", "ClassType"}
SchemaNames(schema) == [i \in DOMAIN schema |-> schema[i][1]]
HasName(schema, name) == \E i \in DOMAIN schema : schema[i][1] = name
\* schema[name]
SchemaGet(schema, name) == schema[CHOOSE i \in DOMAIN schema : schema[i][1] = name][2]

\* copy.copy(d): a shallow copy; StructType.__copy__ forgets the path.
copy(d) == IF d.cls \in StructClasses THEN [d EXCEPT !.toplevel_path = ""] ELSE d

\* setattr(d, "_" + name, value)
setattr(d, name, value) ==
    CASE name = "default" -> [d EXCEPT !.dflt = value]
      [] name = "parameters" -> [d EXCEPT !.specialized = TRUE, !.parameters = value]

_change_in_place(h, self, name, value) ==
    [heap |-> [h EXCEPT ![self] = setattr(h[self], name, value)], ref |-> self]

\* BasicType._change on the object heap h: a copy of self is allocated and
\* the attribute is set on the copy.
_change(h, self, name, value) ==
    [heap |-> Append(h, setattr(copy(h[self]), name, value)), ref |-> Len(h) + 1]

\* The descriptor that d.default(x) returns.
default(d, x) == LET r == _change(<<d>>, 1, "default", x) IN r.heap[r.ref]
none(d) == default(d, None)
empty(d) == default(d, EMPTY)
missing(d) == default(d, MISSING)
required(d) == default(d, REQUIRED)
has_default(d) == d.dflt # REQUIRED

\* The same derivations on the object heap h, self being the reference of
\* the receiver: [heap |-> the heap afterwards, ref |-> the object returned].
BasicType_default(h, self, x) == _change(h, self, "default", x)
BasicType_none(h, self) == BasicType_default(h, self, None)
BasicType_empty(h, self) == BasicType_default(h, self, EMPTY)
BasicType_missing(h, self) == BasicType_default(h, self, MISSING)
BasicType_required(h, self) == BasicType_default(h, self, REQUIRED)

\* resolve without its assertion: the binding is overwritten.
resolve_unasserted(h, self, type) ==
    [heap |-> [h EXCEPT ![self].type = <<h[type]>>], err |-> ""]

\* Placeholder.resolve(type) on the object heap: [heap, err].
resolve(h, self, type) ==
    IF h[self].type # <<>>
    THEN [heap |-> h, err |-> "AssertionError"]
    ELSE [heap |-> [h EXCEPT ![self].type = <<h[type]>>], err |-> ""]

\* A subscript D[arg]: arg is one descriptor (tuple FALSE) or a tuple.
One(d) == [tuple |-> FALSE, items |-> <<d>>]
Many(ds) == [tuple |-> TRUE, items |-> ds]
_as_tuple(value) == IF ~value.tuple THEN <<value.items[1]>> ELSE value.items

\* TemplateType.__getitem__ with the overrides of _List and _Dict, on the
\* object heap: [heap, ref, err].
getitem(h, self, arg) ==
    LET d == h[self]
        parameters == _as_tuple(arg)
        fail(e) == [heap |-> h, ref |-> 0, err |-> e]
        n == Len(parameters)
    IN IF d.cls \notin TemplateClasses THEN fail("TypeError: not subscriptable")
       ELSE IF d.cls = "_List" /\ n # 1
       THEN fail("ValueError: List takes only one template parameter")
       ELSE IF d.cls \in {"_Dict", "_DefaultDict"} /\ n \notin {1, 2}
       THEN fail("ValueError: Dict takes one or two template parameters")
       ELSE IF d.specialized
       THEN fail("ValueError: Cannot specialize already specialized type")
       ELSE LET ps == IF d.cls \in {"_Dict", "_DefaultDict"} /\ n = 1
                      THEN <<Str, parameters[1]>> ELSE parameters
                r == _change(h, self, "parameters", ps)
            IN [heap |-> r.heap, ref |-> r.ref, err |-> ""]

\* The descriptor that D[arg] returns (the subscript is a legal one).
Sub(d, arg) == LET r == getitem(<<d>>, 1, arg) IN r.heap[r.ref]

\* _List._get_parameter, _Dict._get_parameters
_get_parameter(d) == IF d.specialized THEN d.parameters[1] ELSE Any_
_get_parameters(d) == IF d.specialized THEN d.parameters ELSE <<Any_, Any_>>

(***************************************************************************)
(* isinstance, len, iteration.                                             *)
(***************************************************************************)
\* The classes x is an instance of.
Classes(x) ==
    {"object"} \cup
    CASE x.t = "int" -> {"int"}
      [] x.t = "bool" -> {"bool", "int"}
      [] x.t = "float" -> {"float"}
      [] x.t = "str" -> {"str"}
      [] x.t = "bytes" -> {"bytes"}
      [] x.t = "datetime" -> {"datetime"}
      [] x.t = "path" -> {"Path"}
      [] x.t = "list" -> {"list"}
      [] x.t = "tuple" -> {"tuple"}
      [] x.t = "dict" -> {"dict"}
      [] x.t = "defaultdict" -> {"defaultdict", "dict"}
      [] x.t = "struct" -> {"Struct"}
      [] OTHER -> {}

validate_class(value, klass) ==
    IF Classes(value) \cap klass # {} THEN value
    ELSE Error("ValueError: Expected value of type")

\* The items a for loop over x visits, or the TypeError it raises.
Iter(x) ==
    CASE x.t \in {"list", "tuple"} -> ListV(x.v)
      [] x.t \in {"dict", "defaultdict"} -> ListV([i \in DOMAIN x.v |-> x.v[i][1]])
      [] x.t = "str" -> ListV([i \in DOMAIN x.v |-> StrV(<<x.v[i]>>)])
      [] x.t = "bytes" -> ListV([i \in DOMAIN x.v |-> IntV(x.v[i])])
      [] OTHER -> Error("TypeError: not iterable")

\* len(x), or the TypeError it raises.
PyLen(x) ==
    IF x.t \in {"list", "tuple", "dict", "defaultdict", "str", "bytes"}
    THEN IntV(Len(x.v))
    ELSE Error("TypeError: no len()")

\* x.items() as a list of pairs, or the AttributeError it raises.
Items(x) ==
    IF x.t \in {"dict", "defaultdict"} THEN ListV(x.v)
    ELSE Error("AttributeError: items")

(***************************************************************************)
(* Default values and construction.                                        *)
(***************************************************************************)
RECURSIVE default_value(_), new0(_), Struct__init__(_, _), FillDefaults(_, _, _)
RECURSIVE default_value_without_empty(_), FillDefaults_skip_required(_, _, _)

\* The order in which a for loop visits a set of field names of schema:
\* it is fixed by the hash seed of the process (env.order).
SetIter(names, schema) ==
    LET all == SchemaNames(schema)
        n == Len(all)
        seq == IF env.order = "fwd" THEN all ELSE [i \in 1..n |-> all[n + 1 - i]]
    IN Keep(seq, Range(all) \ names)

\* The Placeholder's resolved type with the Placeholder's own default
\* (types.py 450): self._type.default(self._default).
Forwarded(d) == default(d.type[1], d.dflt)
\* getattr(super(self, Placeholder), name): super() refuses an instance
\* as its first argument.
Unresolved == Error("TypeError: super() argument 1 must be type")

\* default_value without the branch for EMPTY, which then is an invalid
\* default value.
default_value_without_empty(d) ==
    IF d.cls = "Placeholder"
    THEN (IF d.type = <<>> THEN Unresolved ELSE default_value_without_empty(Forwarded(d)))
    ELSE IF d.cls = "_Datetime" /\ d.dflt = NOW THEN env.now
    ELSE IF d.dflt = REQUIRED THEN Error("ValueError: BasicType has no default value")
    ELSE IF d.dflt = MISSING
    THEN Error("ValueError: Missing can only be used inside a struct")
    ELSE IF d.dflt.t = "DefaultValue" THEN Error("ValueError: Invalid default value")
    ELSE d.dflt

\* BasicType.default_value with the override of _Datetime and the
\* forwarding of Placeholder.
default_value(d) ==
    IF d.cls = "Placeholder"
    THEN (IF d.type = <<>> THEN Unresolved ELSE default_value(Forwarded(d)))
    ELSE IF d.cls = "_Datetime" /\ d.dflt = NOW THEN env.now
    ELSE IF d.dflt = REQUIRED THEN Error("ValueError: BasicType has no default value")
    ELSE IF d.dflt = EMPTY THEN new0(d)
    ELSE IF d.dflt = MISSING
    THEN Error("ValueError: Missing can only be used inside a struct")
    ELSE IF d.dflt.t = "DefaultValue" THEN Error("ValueError: Invalid default value")
    ELSE d.dflt

\* d.new() without arguments: klass(), or the factory of a record.
new0(d) ==
    CASE d.cls = "Placeholder" ->
             (IF d.type = <<>> THEN Unresolved ELSE new0(Forwarded(d)))
      [] d.cls = "_Any" -> Error("TypeError: new() missing argument value")
      [] d.cls = "_DefaultDict" -> DefaultDictV(<<>>)
      [] d.cls \in StructClasses -> Struct__init__(d.schema, <<>>)
      [] OTHER ->
             CASE d.klass = "int" -> IntV(0)
               [] d.klass = "str" -> StrV(<<>>)
               [] d.klass = "bool" -> BoolV(FALSE)
               [] d.klass = "float" -> FloatV(0)
               [] d.klass = "bytes" -> BytesV(<<>>)
               [] d.klass = "Path" -> PathNew(<<>>)
               [] d.klass = "list" -> ListV(<<>>)
               [] d.klass = "dict" -> DictV(<<>>)
               [] d.klass = "tuple" -> TupleV(<<>>)
               [] OTHER -> Error("TypeError: missing constructor arguments")

\* The loop of __init__ passing over a required field as it does over a
\* MISSING one.
FillDefaults_skip_required(schema, order, fields) ==
    IF order = <<>> THEN DictV(fields)
    ELSE LET name == order[1]
             type == SchemaGet(schema, name)
         IN IF type.dflt \in {REQUIRED, MISSING}
            THEN FillDefaults_skip_required(schema, Tail(order), fields)
            ELSE LET v == default_value(type)
                 IN IF IsError(v) THEN v
                    ELSE FillDefaults_skip_required(schema, Tail(order),
                                                    Append(fields, <<name, v>>))

\* __init__ without the check of the supplied names.
Struct__init__unchecked(schema, kwargs) ==
    LET remaining == Range(SchemaNames(schema)) \ FieldNames(kwargs)
        fields == FillDefaults(schema, SetIter(remaining, schema), kwargs)
    IN IF IsError(fields) THEN fields
       ELSE StructV(SchemaNames(schema), fields.v)

\* struct.py 17-24: the loop over the names not supplied, in the order
\* given; fields is the _fields so far.
FillDefaults(schema, order, fields) ==
    IF order = <<>> THEN DictV(fields)
    ELSE LET name == order[1]
             type == SchemaGet(schema, name)
         IN IF type.dflt = REQUIRED THEN Error("TypeError: Missing argument")
            ELSE IF type.dflt = MISSING THEN FillDefaults(schema, Tail(order), fields)
            ELSE LET v == default_value(type)
                 IN IF IsError(v) THEN v
                    ELSE FillDefaults(schema, Tail(order), Append(fields, <<name, v>>))

\* Struct.__init__(**kwargs) for a class of the given _schema: the new
\* record, or the exception raised.  kwargs are <<name, value>> pairs.
Struct__init__(schema, kwargs) ==
    IF \E i \in DOMAIN kwargs : ~HasName(schema, kwargs[i][1])
    THEN Error("NameError: Invalid argument")
    ELSE LET remaining == Range(SchemaNames(schema)) \ FieldNames(kwargs)
             fields == FillDefaults(schema, SetIter(remaining, schema), kwargs)
         IN IF IsError(fields) THEN fields
            ELSE StructV(SchemaNames(schema), fields.v)

\* StructType.new(**kwargs): self._factory(**kwargs)
new(d, kwargs) == Struct__init__(d.schema, kwargs)

(***************************************************************************)
(* Field access on a record (struct.py 49-81).  Each operator returns      *)
(* [self |-> the record afterwards, out |-> the value returned, None, or   *)
(* the exception raised].  schema is the _schema of the record's class.    *)
(***************************************************************************)
\* The names of the internal namespace that the model uses.
PrivateNames == {"_tag"}
\* name.startswith("_")
startswith_(name) == name \in PrivateNames

RECURSIVE Remove(_, _)
\* del d[name] on a pair sequence keyed by name
Remove(pairs, name) ==
    IF pairs = <<>> THEN <<>>
    ELSE IF pairs[1][1] = name THEN Tail(pairs)
    ELSE <<pairs[1]>> \o Remove(Tail(pairs), name)

\* d[name] = value on a pair sequence keyed by name
Store(pairs, name, value) ==
    IF HasField(pairs, name)
    THEN [i \in DOMAIN pairs |-> IF pairs[i][1] = name THEN <<name, value>> ELSE pairs[i]]
    ELSE Append(pairs, <<name, value>>)

NoAttribute == Error("AttributeError: has no attribute")
NotSet == Error("AttributeError: Field not set")

\* Struct.__getattr__
Struct__getattr__(schema, self, name) ==
    [self |-> self,
     out |-> IF HasName(schema, name)
             THEN (IF HasField(self.v.fields, name)
                   THEN FieldGet(self.v.fields, name, None) ELSE NotSet)
             ELSE IF startswith_(name)
             THEN (IF HasField(self.v.attrs, name)
                   THEN FieldGet(self.v.attrs, name, None) ELSE NoAttribute)
             ELSE NoAttribute]

Struct__setattr__unchecked(schema, self, name, value) ==
    [self |-> [self EXCEPT !.v.fields = Store(self.v.fields, name, value)], out |-> None]

\* Struct.__setattr__
Struct__setattr__(schema, self, name, value) ==
    IF HasName(schema, name)
    THEN [self |-> [self EXCEPT !.v.fields = Store(self.v.fields, name, value)], out |-> None]
    ELSE IF startswith_(name)
    THEN [self |-> [self EXCEPT !.v.attrs = Store(self.v.attrs, name, value)], out |-> None]
    ELSE [self |-> self, out |-> NoAttribute]

\* Struct.__delattr__
Struct__delattr__(schema, self, name) ==
    IF HasName(schema, name)
    THEN (IF HasField(self.v.fields, name)
          THEN [self |-> [self EXCEPT !.v.fields = Remove(self.v.fields, name)], out |-> None]
          ELSE [self |-> self, out |-> NotSet])
    ELSE IF startswith_(name)
    THEN (IF HasField(self.v.attrs, name)
          THEN [self |-> [self EXCEPT !.v.attrs = Remove(self.v.attrs, name)], out |-> None]
          ELSE [self |-> self, out |-> NoAttribute])
    ELSE [self |-> self, out |-> NoAttribute]

(***************************************************************************)
(* Conversion: to_jsony and from_jsony.                                    *)
(***************************************************************************)
\* ord() of the characters of B85Alphabet, to read a bytes as text.
B85Ord ==
    <<48, 49, 50, 51, 52, 53, 54, 55, 56, 57,
      65, 66, 67, 68, 69, 70, 71, 72, 73, 74, 75, 76, 77,
      78, 79, 80, 81, 82, 83, 84, 85, 86, 87, 88, 89, 90,
      97, 98, 99, 100, 101, 102, 103, 104, 105, 106, 107, 108, 109,
      110, 111, 112, 113, 114, 115, 116, 117, 118, 119, 120, 121, 122,
      33, 35, 36, 37, 38, 40, 41, 42, 43, 45, 59, 60, 61,
      62, 63, 64, 94, 95, 96, 123, 124, 125, 126>>
AsciiChar(b) ==
    IF \E i \in DOMAIN B85Ord : B85Ord[i] = b
    THEN B85Alphabet[CHOOSE i \in DOMAIN B85Ord : B85Ord[i] = b]
    ELSE " "

\* _get_parameters without the comparison of the lengths: zip then stops
\* at the shorter of the two.
_Tuple_get_parameters_unchecked(d, value) ==
    IF d.specialized
    THEN [t |-> "parameters", v |-> d.parameters]
    ELSE [t |-> "repeat", v |-> Any_]

\* _Tuple._get_parameters(value): the parameters, itertools.repeat(Any)
\* for an unparametrized Tuple, or the exception raised.
_Tuple_get_parameters(d, value) ==
    IF d.specialized
    THEN LET n == PyLen(value)
         IN IF IsError(n) THEN n
            ELSE IF n.v # Len(d.parameters)
            THEN Error("ValueError: Expected tuple of length")
            ELSE [t |-> "parameters", v |-> d.parameters]
    ELSE [t |-> "repeat", v |-> Any_]

\* The i-th pair of zip(parameters, items), and the number of pairs.
ZipLen(parameters, items) ==
    IF parameters.t = "repeat" THEN Len(items)
    ELSE IF Len(parameters.v) < Len(items) THEN Len(parameters.v) ELSE Len(items)
ZipParam(parameters, i) == IF parameters.t = "repeat" THEN parameters.v ELSE parameters.v[i]

\* A list comprehension over computed results: its first exception, or
\* the list.
Collect(results) ==
    LET e == FirstError(results) IN IF IsError(e) THEN e ELSE ListV(results)

RECURSIVE to_jsony(_, _, _), _to_jsony(_, _, _), from_jsony(_, _, _), _from_jsony(_, _, _)

\* struct.py _to_jsony(struct, schema, target)
struct_to_jsony(value, schema, target) ==
    IF value.t # "struct" THEN Error("AttributeError: _fields")
    ELSE LET fields == value.v.fields
         IN DictBuild(<<>>,
                [i \in DOMAIN fields |->
                    <<Text(fields[i][1]),
                      IF HasName(schema, fields[i][1])
                      THEN to_jsony(SchemaGet(schema, fields[i][1]), fields[i][2], target)
                      ELSE Error("KeyError")>>])

\* _from_jsony storing the decoded fields as they are, without a call of
\* the factory.
struct_from_jsony_unfilled(jsony, schema, source) ==
    LET items == Items(jsony)
        known(k) == \E j \in DOMAIN schema : Text(schema[j][1]) = k
        nameof(k) == schema[CHOOSE j \in DOMAIN schema : Text(schema[j][1]) = k][1]
    IN IF IsError(items) THEN items
       ELSE LET kwargs ==
                    DictBuild(<<>>,
                        [i \in DOMAIN items.v |->
                            <<items.v[i][1],
                              IF known(items.v[i][1])
                              THEN from_jsony(SchemaGet(schema, nameof(items.v[i][1])),
                                              items.v[i][2], source)
                              ELSE Error("KeyError")>>])
            IN IF IsError(kwargs) THEN kwargs
               ELSE StructV(SchemaNames(schema),
                        [i \in DOMAIN kwargs.v |-> <<nameof(kwargs.v[i][1]), kwargs.v[i][2]>>])

\* struct.py _from_jsony(jsony, factory, schema, source)
struct_from_jsony(jsony, schema, source) ==
    LET items == Items(jsony)
        known(k) == \E j \in DOMAIN schema : Text(schema[j][1]) = k
        nameof(k) == schema[CHOOSE j \in DOMAIN schema : Text(schema[j][1]) = k][1]
    IN IF IsError(items) THEN items
       ELSE LET kwargs ==
                    DictBuild(<<>>,
                        [i \in DOMAIN items.v |->
                            <<items.v[i][1],
                              IF known(items.v[i][1])
                              THEN from_jsony(SchemaGet(schema, nameof(items.v[i][1])),
                                              items.v[i][2], source)
                              ELSE Error("KeyError")>>])
            IN IF IsError(kwargs) THEN kwargs
               ELSE Struct__init__(schema,
                        [i \in DOMAIN kwargs.v |-> <<nameof(kwargs.v[i][1]), kwargs.v[i][2]>>])

\* to_jsony without the shortcut for None.
to_jsony_unguarded(d, value, target) == _to_jsony(d, value, target)

\* BasicType.to_jsony
to_jsony(d, value, target) ==
    IF value = None THEN None ELSE _to_jsony(d, value, target)

\* The _to_jsony of each descriptor class.
_to_jsony(d, value, target) ==
    CASE d.cls \in {"BuiltinType", "_Any"} -> validate_class(value, {d.klass})
      [] d.cls = "_Float" ->
             LET r == validate_class(value, {"float", "int"})
             IN IF IsError(r) THEN r ELSE FloatV(Num(r))
      [] d.cls = "_Datetime" ->
             IF target = JSON THEN StrV(PyStr(value))
             ELSE IF target = BSON THEN value
             ELSE Error("ValueError: Unsupported target")
      [] d.cls = "_Path" -> StrV(PyStr(value))
      [] d.cls = "_Bytes" ->
             IF target = JSON
             THEN (IF value.t = "bytes" THEN StrV(B85Encode(value.v))
                   ELSE Error("TypeError: a bytes-like object is required"))
             ELSE IF target = BSON THEN validate_class(value, {d.klass})
             ELSE Error("ValueError: Unsupported target")
      [] d.cls = "_List" ->
             LET items == Iter(value)
             IN IF IsError(items) THEN items
                ELSE Collect([i \in DOMAIN items.v |->
                                 to_jsony(_get_parameter(d), items.v[i], target)])
      [] d.cls \in {"_Dict", "_DefaultDict"} ->
             LET items == Items(value)
                 kv == _get_parameters(d)
             IN IF IsError(items) THEN items
                ELSE DictBuild(<<>>,
                         [i \in DOMAIN items.v |->
                             <<to_jsony(kv[1], items.v[i][1], target),
                               to_jsony(kv[2], items.v[i][2], target)>>])
      [] d.cls = "_Tuple" ->
             LET parameters == _Tuple_get_parameters(d, value)
                 items == Iter(value)
             IN IF IsError(parameters) THEN parameters
                ELSE IF IsError(items) THEN items
                ELSE Collect([i \in 1..ZipLen(parameters, items.v) |->
                                 to_jsony(ZipParam(parameters, i), items.v[i], target)])
      [] d.cls \in StructClasses -> struct_to_jsony(value, d.schema, target)
      [] d.cls = "Placeholder" ->
             IF d.type = <<>> THEN Unresolved ELSE _to_jsony(Forwarded(d), value, target)
      [] OTHER -> Error("NotImplementedError")

\* BasicType.from_jsony
from_jsony(d, jsony, source) ==
    IF jsony = None THEN None ELSE _from_jsony(d, jsony, source)

\* The _from_jsony of each descriptor class.
_from_jsony(d, jsony, source) ==
    CASE d.cls \in {"BuiltinType", "_Any"} -> validate_class(jsony, {d.klass})
      [] d.cls = "_Float" ->
             LET r == validate_class(jsony, {"float", "int"})
             IN IF IsError(r) THEN r ELSE FloatV(Num(r))
      [] d.cls = "_Datetime" ->
             IF source = JSON
             THEN (IF jsony.t = "str" THEN FromIsoFormat(jsony.v)
                   ELSE Error("TypeError: fromisoformat: argument must be str"))
             ELSE IF source = BSON THEN jsony
             ELSE Error("ValueError: Unsupported source")
      [] d.cls = "_Path" ->
             IF jsony.t = "str" THEN PathNew(jsony.v)
             ELSE IF jsony.t = "path" THEN jsony
             ELSE Error("TypeError: expected str, bytes or os.PathLike object")
      [] d.cls = "_Bytes" ->
             IF source = JSON
             THEN (IF jsony.t = "str" THEN B85Decode(jsony.v)
                   ELSE IF jsony.t = "bytes"
                   THEN B85Decode([i \in DOMAIN jsony.v |-> AsciiChar(jsony.v[i])])
                   ELSE Error("TypeError: a bytes-like object or ASCII string is required"))
             ELSE IF source = BSON THEN validate_class(jsony, {d.klass})
             ELSE Error("ValueError: Unsupported source")
      [] d.cls = "_List" ->
             LET items == Iter(jsony)
             IN IF IsError(items) THEN items
                ELSE Collect([i \in DOMAIN items.v |->
                                 from_jsony(_get_parameter(d), items.v[i], source)])
      [] d.cls \in {"_Dict", "_DefaultDict"} ->
             LET items == Items(jsony)
                 kv == _get_parameters(d)
                 built == DictBuild(<<>>,
                              [i \in DOMAIN items.v |->
                                  <<from_jsony(kv[1], items.v[i][1], source),
                                    from_jsony(kv[2], items.v[i][2], source)>>])
             IN IF IsError(items) THEN items
                ELSE IF IsError(built) \/ d.cls = "_Dict" THEN built
                ELSE DefaultDictV(built.v)
      [] d.cls = "_Tuple" ->
             LET parameters == _Tuple_get_parameters(d, jsony)
                 items == Iter(jsony)
                 r == Collect([i \in 1..ZipLen(parameters, items.v) |->
                                  from_jsony(ZipParam(parameters, i), items.v[i], source)])
             IN IF IsError(parameters) THEN parameters
                ELSE IF IsError(items) THEN items
                ELSE IF IsError(r) THEN r ELSE TupleV(r.v)
      [] d.cls \in StructClasses -> struct_from_jsony(jsony, d.schema, source)
      [] d.cls = "Placeholder" ->
             IF d.type = <<>> THEN Unresolved ELSE _from_jsony(Forwarded(d), jsony, source)
      [] OTHER -> Error("NotImplementedError")

(***************************************************************************)
(* Reflective derivation (inspection.py).  A Python object handed to it    *)
(* is None, a class ClassV(name), a descriptor PyBasic(d) or a value; a    *)
(* parameter of a signature is [name, kind, annotation, default], with     *)
(* ParameterEmpty for no annotation and for no default.  Every operator    *)
(* returns PyBasic(descriptor) or the exception raised.                    *)
(***************************************************************************)
ClassV(klass) == [t |-> "type", v |-> klass]
PyBasic(d) == [t |-> "BasicType", v |-> d]
ParameterEmpty == [t |-> "Parameter.empty", v |-> 0]
Parameter(name, kind, annotation, dflt) ==
    [name |-> name, kind |-> kind, annotation |-> annotation, default |-> dflt]
POSITIONAL_OR_KEYWORD == "POSITIONAL_OR_KEYWORD"
VAR_POSITIONAL == "VAR_POSITIONAL"
VAR_KEYWORD == "VAR_KEYWORD"

\* type(value)
TypeOf(value) ==
    ClassV(CASE value.t = "path" -> "Path"
             [] value.t = "struct" -> "Struct"
             [] value.t = "object" -> value.v.klass
             [] value = None -> "NoneType"
             [] OTHER -> value.t)

\* The classes that issubclass(klass, .) accepts.
SuperClasses(klass) ==
    {klass, "object"} \cup
    CASE klass = "bool" -> {"int"} [] klass = "defaultdict" -> {"dict"} [] OTHER -> {}

POSSIBLE_TYPES == <<Bool, Int_, Float, Tuple, List, Dict, Path, Datetime, Str, Bytes>>

\* The parameters of klass.__init__ after self, for the classes of the
\* program under reflection: class E: def __init__(self, a=1), and the
\* class of the run.
InitOf(klass) ==
    IF klass = "E"
    THEN <<Parameter("a", POSITIONAL_OR_KEYWORD, ParameterEmpty, IntV(1))>>
    ELSE sig.parameters

\* extra.get(name)
ExtraGet(extra, name) ==
    IF \E i \in DOMAIN extra : extra[i][1] = name
    THEN extra[CHOOSE i \in DOMAIN extra : extra[i][1] = name][2]
    ELSE None

\* _class_struct: the ClassType descriptor of a derived schema.
_class_struct(convert_klass, args_name, kwargs_name, schema, empty_constructible) ==
    [Blank EXCEPT !.cls = "ClassType", !.klass = "Struct", !.schema = schema,
                  !.name = convert_klass \o "Struct",
                  !.convert_class = convert_klass,
                  !.empty_constructible = empty_constructible,
                  !.args_name = args_name, !.kwargs_name = kwargs_name]

\* _empty_defaultify
_empty_defaultify(type_) ==
    IF ~has_default(type_) /\ type_.cls = "ClassType" /\ type_.empty_constructible
    THEN empty(type_)
    ELSE type_

RECURSIVE guess_type(_), _parameter_type(_, _), _init_schema(_, _, _, _), class_type(_, _, _)

\* guess_type
guess_type(value) ==
    IF value.t = "BasicType" THEN value
    ELSE IF value = None THEN PyBasic(none(Any_))
    ELSE LET type_ == IF value.t = "type" THEN value ELSE TypeOf(value)
             hits == {i \in DOMAIN POSSIBLE_TYPES :
                          POSSIBLE_TYPES[i].klass \in SuperClasses(type_.v)}
             first == CHOOSE i \in hits : \A j \in hits : i <= j
             basic_type == IF hits # {} THEN PyBasic(POSSIBLE_TYPES[first])
                           ELSE class_type(type_.v, InitOf(type_.v), <<>>)
         IN IF IsError(basic_type) THEN basic_type
            ELSE IF value.t # "type" THEN PyBasic(default(basic_type.v, value))
            ELSE basic_type

\* _parameter_type
_parameter_type(parameter, extra) ==
    LET default0 == IF extra # None
                    THEN (IF extra.t = "type" THEN REQUIRED ELSE extra)
                    ELSE IF parameter.default # ParameterEmpty THEN parameter.default
                    ELSE REQUIRED
        type0 == IF extra # None /\ extra.t = "type" THEN extra ELSE None
        type1 == IF parameter.annotation # ParameterEmpty THEN parameter.annotation
                 ELSE IF default0 \notin {None, REQUIRED} THEN TypeOf(default0)
                 ELSE type0
        variadic == parameter.kind \in {VAR_KEYWORD, VAR_POSITIONAL}
        type2 == IF variadic /\ type1 = None
                 THEN (IF parameter.kind = VAR_KEYWORD
                       THEN PyBasic(Sub(Dict, One(Any_)))
                       ELSE PyBasic(Sub(List, One(Any_))))
                 ELSE type1
        \* type_.empty: only a descriptor has the attribute
        type3 == IF variadic /\ default0 = REQUIRED
                 THEN (IF type2.t = "BasicType" THEN PyBasic(empty(type2.v))
                       ELSE Error("AttributeError: type object has no attribute 'empty'"))
                 ELSE type2
        basic_type == IF IsError(type3) THEN type3 ELSE guess_type(type3)
    IN IF extra # None /\ extra.t = "BasicType" THEN extra
       ELSE IF IsError(basic_type) THEN basic_type
       ELSE IF default0 # REQUIRED
       THEN (IF ~has_default(basic_type.v) THEN PyBasic(default(basic_type.v, default0))
             ELSE IF default0 # None
             THEN Error("ValueError: Default value provided but type already has a default value")
             ELSE basic_type)
       ELSE basic_type

\* _init_schema: the loop over the parameters after the first, fields
\* being the schema so far; then _class_struct.
_init_schema(parameters, klass, extra, fields) ==
    IF Len(fields) = Len(parameters)
    THEN LET named(kind) == {i \in DOMAIN parameters : parameters[i].kind = kind}
             last(S) == IF S = {} THEN ""
                        ELSE parameters[CHOOSE i \in S : \A j \in S : j <= i].name
         IN PyBasic(_class_struct(klass, last(named(VAR_POSITIONAL)),
                                  last(named(VAR_KEYWORD)), fields,
                                  \A i \in DOMAIN fields : has_default(fields[i][2])))
    ELSE LET parameter == parameters[Len(fields) + 1]
             field_type == _parameter_type(parameter, ExtraGet(extra, parameter.name))
         IN IF IsError(field_type) THEN field_type
            ELSE _init_schema(parameters, klass, extra,
                              Append(fields, <<parameter.name, _empty_defaultify(field_type.v)>>))

\* class_type(klass, **extra), parameters being those of klass.__init__
\* after self.
class_type(klass, parameters, extra) == _init_schema(parameters, klass, extra, <<>>)

(***************************************************************************)
(* Reconstruction (inspection.py 26-37, 180-188): the call of              *)
(* convert_class with the unpacked args and kwargs.  An instance of a      *)
(* class of the program under reflection is the binding of its __init__    *)
(* parameters, as <<name, value>> in the order of the signature.           *)
(***************************************************************************)
ObjectV(klass, bound) == [t |-> "object", v |-> [klass |-> klass, bound |-> bound]]

\* The call of klass with positional arguments args and keyword
\* arguments kwargs, by the rules of a Python call; kwargs are
\* <<key, value>> pairs, the keys being str values.
PyCall(klass, args, kwargs) ==
    LET parameters == InitOf(klass)
        pos == SelectSeq(parameters, LAMBDA p : p.kind = POSITIONAL_OR_KEYWORD)
        taken == IF Len(args) < Len(pos) THEN Len(args) ELSE Len(pos)
        var_positional == \E i \in DOMAIN parameters : parameters[i].kind = VAR_POSITIONAL
        var_keyword == \E i \in DOMAIN parameters : parameters[i].kind = VAR_KEYWORD
        named(key) == \E i \in DOMAIN pos : Text(pos[i].name) = key
        given(name) == \E i \in DOMAIN kwargs : kwargs[i][1] = Text(name)
        keyword(name) == kwargs[CHOOSE i \in DOMAIN kwargs : kwargs[i][1] = Text(name)][2]
        value(p) ==
            CASE p.kind = VAR_POSITIONAL -> TupleV(SubSeq(args, taken + 1, Len(args)))
              [] p.kind = VAR_KEYWORD ->
                     DictV(SelectSeq(kwargs, LAMBDA kw : ~named(kw[1])))
              [] OTHER ->
                     LET i == CHOOSE i \in DOMAIN pos : pos[i].name = p.name
                     IN IF i <= taken THEN args[i]
                        ELSE IF given(p.name) THEN keyword(p.name)
                        ELSE p.default
    IN IF \E i \in 1..taken : given(pos[i].name)
       THEN Error("TypeError: got multiple values for argument")
       ELSE IF ~var_keyword /\ \E i \in DOMAIN kwargs : ~named(kwargs[i][1])
       THEN Error("TypeError: got an unexpected keyword argument")
       ELSE IF ~var_positional /\ Len(args) > Len(pos)
       THEN Error("TypeError: takes fewer positional arguments")
       ELSE IF \E i \in DOMAIN pos :
                   i > taken /\ ~given(pos[i].name) /\ pos[i].default = ParameterEmpty
       THEN Error("TypeError: missing required positional argument")
       ELSE ObjectV(klass, [i \in DOMAIN parameters |->
                                <<parameters[i].name, value(parameters[i])>>])

\* kwargs.update(other) for a mapping other with str keys.
RECURSIVE DictUpdate(_, _)
DictUpdate(kwargs, other) ==
    IF other = <<>> THEN kwargs
    ELSE DictUpdate(DictInsert(kwargs, other[1][1], other[1][2]), Tail(other))

\* ClassType.get_args_kwargs: [args, kwargs], or the exception raised.
get_args_kwargs(d, value) ==
    LET fields == value.v.fields
        kwargs0 == [i \in DOMAIN fields |-> <<Text(fields[i][1]), fields[i][2]>>]
        popped(name) == FieldGet(fields, name, None)
        without(kw, name) == SelectSeq(kw, LAMBDA p : p[1] # Text(name))
        args == IF d.args_name = "" THEN ListV(<<>>) ELSE popped(d.args_name)
        kwargs1 == IF d.args_name = "" THEN kwargs0 ELSE without(kwargs0, d.args_name)
        other == popped(d.kwargs_name)
    IN IF d.args_name # "" /\ ~HasField(fields, d.args_name) THEN Error("KeyError")
       ELSE IF d.kwargs_name = "" THEN [t |-> "call", args |-> args, kwargs |-> kwargs1]
       ELSE IF ~HasField(fields, d.kwargs_name) THEN Error("KeyError")
       ELSE IF other.t \notin {"dict", "defaultdict"}
       THEN Error("TypeError: cannot update a dict from this value")
       ELSE [t |-> "call", args |-> args,
             kwargs |-> DictUpdate(without(kwargs1, d.kwargs_name), other.v)]

\* ClassType._convert
_convert(d, value) ==
    LET call == get_args_kwargs(d, value)
        args == Iter(call.args)
    IN IF IsError(call) THEN call
       ELSE IF IsError(args) THEN args
       ELSE IF \E i \in DOMAIN call.kwargs : call.kwargs[i][1].t # "str"
       THEN Error("TypeError: keywords must be strings")
       ELSE PyCall(d.convert_class, args.v, call.kwargs)

\* The function _transform that convert hands to apply.
_transform(sub_type, sub_value) ==
    IF sub_type.cls = "ClassType" /\ sub_value.t = "struct" /\ sub_type.convert_class # ""
    THEN _convert(sub_type, sub_value)
    ELSE sub_value

(***************************************************************************)
(* apply.  The function handed to apply is one of Funcs; the result of a  *)
(* walk is [ret |-> the value returned or the exception raised,            *)
(* log |-> the calls of func so far, as <<descriptor, value>> in order].   *)
(***************************************************************************)
Funcs == {"same", "inc"}
\* func(d, v): "same" returns v, "inc" returns v + 1 for an int v;
\* "_transform" is the function of convert.
Func(f, d, v) ==
    IF f = "_transform" THEN _transform(d, v)
    ELSE IF f = "inc" /\ v.t = "int" THEN IntV(v.v + 1) ELSE v
Call(f, d, v, log) == [ret |-> Func(f, d, v), log |-> Append(log, <<d, v>>)]
Raise(e, log) == [ret |-> e, log |-> log]

\* apply without the walk: func is handed the value as it is.
apply_without_descent(d, value, f, log) == Call(f, d, value, log)

RECURSIVE apply(_, _, _, _), _apply(_, _, _, _), ApplyEach(_, _, _, _, _), ApplyItems(_, _, _, _, _)

\* [parameter.apply(item, func) for parameter, item in zip(ds, items)]
\* from position i on; done holds the results so far.
ApplyEach(ds, items, f, log, done) ==
    IF Len(done) = Len(items) THEN [ret |-> ListV(done), log |-> log]
    ELSE LET i == Len(done) + 1
             r == apply(ds[i], items[i], f, log)
         IN IF IsError(r.ret) THEN r ELSE ApplyEach(ds, items, f, r.log, Append(done, r.ret))

\* {key_type.apply(k, func): value_type.apply(v, func) for k, v in items}
ApplyItems(kv, items, f, log, done) ==
    IF items = <<>> THEN [ret |-> DictV(done), log |-> log]
    ELSE LET k == apply(kv[1], items[1][1], f, log)
             v == apply(kv[2], items[1][2], f, k.log)
         IN IF IsError(k.ret) THEN k
            ELSE IF IsError(v.ret) THEN v
            ELSE IF ~Hashable(k.ret) THEN Raise(Error("TypeError: unhashable"), v.log)
            ELSE ApplyItems(kv, Tail(items), f, v.log, DictInsert(done, k.ret, v.ret))

\* BasicType.apply
apply(d, value, f, log) ==
    IF value = None THEN Call(f, d, value, log) ELSE _apply(d, value, f, log)

\* The _apply of each descriptor class.
_apply(d, value, f, log) ==
    CASE d.cls = "_List" ->
             LET items == Iter(value)
                 r == ApplyEach([i \in DOMAIN items.v |-> _get_parameter(d)], items.v, f, log, <<>>)
             IN IF IsError(items) THEN Raise(items, log)
                ELSE IF IsError(r.ret) THEN r
                ELSE Call(f, d, r.ret, r.log)
      [] d.cls \in {"_Dict", "_DefaultDict"} ->
             LET items == Items(value)
                 r == ApplyItems(_get_parameters(d), items.v, f, log, <<>>)
             IN IF IsError(items) THEN Raise(items, log)
                ELSE IF IsError(r.ret) THEN r
                ELSE Call(f, d, r.ret, r.log)
      [] d.cls = "_Tuple" ->
             LET parameters == _Tuple_get_parameters(d, value)
                 items == Iter(value)
                 n == ZipLen(parameters, items.v)
                 r == ApplyEach([i \in 1..n |-> ZipParam(parameters, i)],
                                SubSeq(items.v, 1, n), f, log, <<>>)
             IN IF IsError(parameters) THEN Raise(parameters, log)
                ELSE IF IsError(items) THEN Raise(items, log)
                ELSE IF IsError(r.ret) THEN r
                ELSE Call(f, d, TupleV(r.ret.v), r.log)
      [] d.cls \in StructClasses ->
             IF d.cls = "ClassType" /\ value.t # "struct" THEN Call(f, d, value, log)
             ELSE IF value.t # "struct" THEN Raise(Error("AttributeError: _fields"), log)
             ELSE IF \E i \in DOMAIN value.v.fields : ~HasName(d.schema, value.v.fields[i][1])
             THEN Raise(Error("KeyError"), log)
             ELSE LET fields == value.v.fields
                      r == ApplyEach([i \in DOMAIN fields |-> SchemaGet(d.schema, fields[i][1])],
                                     [i \in DOMAIN fields |-> fields[i][2]], f, log, <<>>)
                      made == new(d, [i \in DOMAIN fields |-> <<fields[i][1], r.ret.v[i]>>])
                  IN IF IsError(r.ret) THEN r
                     ELSE IF IsError(made) THEN Raise(made, r.log)
                     ELSE Call(f, d, made, r.log)
      [] d.cls = "Placeholder" ->
             IF d.type = <<>> THEN Raise(Unresolved, log)
             ELSE _apply(Forwarded(d), value, f, log)
      [] OTHER -> Call(f, d, value, log)

(***************************************************************************)
(* The descriptors and the input values of the conversion run.             *)
(***************************************************************************)
\* struct("Person", name=Str, age=Int.default(0), note=Str.missing)
Person ==
    struct("Person", << <<"name", Str>>, <<"age", default(Int_, IntV(0))>>,
                        <<"note", missing(Str)>> >>)
TupleIntStr == Sub(Tuple, Many(<<Int_, Str>>))

Leaves == {Int_, Str, Bool, Float, Bytes, Datetime, Path, Any_}
Descriptors ==
    Leaves \cup
    {List, Sub(List, One(Int_)), Sub(List, One(TupleIntStr)),
     Dict, Sub(Dict, One(Int_)), Sub(Dict, Many(<<Sub(Tuple, One(Int_)), Int_>>)),
     Sub(Dict, Many(<<Path, Bytes>>)),
     Sub(DefaultDict, One(default(Int_, IntV(0)))),
     Tuple, TupleIntStr, Sub(Tuple, One(Int_)), Sub(Tuple, Many(<<>>)),
     Person, none(Person)}

\* The sequences over S of length at most n.
BoundedSeq(S, n) == UNION {[1..k -> S] : k \in 0..n}
\* Those without a repeated element.
Injective(s) == \A i, j \in DOMAIN s : i # j => s[i] # s[j]

StrValues == {StrV(<<>>), StrV(<<"a">>), StrV(<<"5">>)}
ByteValues == {0, 65, 255}
AnyValues == {IntV(0), StrV(<<"a">>), TupleV(<<IntV(1)>>)}

RECURSIVE Samples(_), ValuesOf(_)
\* A few native values of the shape d describes, for the items of a
\* container.
Samples(d) ==
    CASE d.cls = "BuiltinType" /\ d.klass = "int" -> {IntV(0), IntV(MaxInt)}
      [] d.cls = "BuiltinType" /\ d.klass = "str" -> {StrV(<<"a">>), StrV(<<"5">>)}
      [] d.cls = "_Any" -> {IntV(0), StrV(<<"a">>)}
      [] d.cls = "_Bytes" -> {BytesV(<<>>), BytesV(<<0, 255>>)}
      [] d.cls = "_Path" -> {PathNew(<<"a">>), PathNew(<<"/", "a">>)}
      [] d.cls = "_Tuple" /\ d.specialized ->
             {TupleV(x) : x \in {y \in [DOMAIN d.parameters -> UNION {Samples(d.parameters[i]) : i \in DOMAIN d.parameters}] :
                                     \A i \in DOMAIN y : y[i] \in Samples(d.parameters[i])}}
      [] OTHER -> {}

\* Native values of the shape descriptor d describes (None apart).
ValuesOf(d) ==
    CASE d.cls = "BuiltinType" /\ d.klass = "int" -> {IntV(i) : i \in 0..MaxInt}
      [] d.cls = "BuiltinType" /\ d.klass = "str" -> StrValues
      [] d.cls = "BuiltinType" /\ d.klass = "bool" -> {BoolV(b) : b \in BOOLEAN}
      [] d.cls = "_Any" -> AnyValues
      [] d.cls = "_Float" -> {FloatV(i) : i \in 0..MaxInt} \cup {IntV(i) : i \in 0..MaxInt}
      [] d.cls = "_Bytes" ->
             {BytesV(b) : b \in BoundedSeq(ByteValues, MaxLen)}
                 \cup {BytesV(<<0, 65, 255, 1>>), BytesV(<<255, 255, 255, 255, 65>>)}
      [] d.cls = "_Datetime" -> {DatetimeV(x, y) : x \in 0..MaxInt, y \in 0..MaxInt}
      [] d.cls = "_Path" ->
             {PathNew(<<>>), PathNew(<<"a">>), PathNew(<<"a", "/", "b">>), PathNew(<<"/", "a">>)}
      [] d.cls = "_List" ->
             {ListV(x) : x \in BoundedSeq(Samples(_get_parameter(d)) \cup {None}, MaxLen)}
      [] d.cls \in {"_Dict", "_DefaultDict"} ->
             LET kv == _get_parameters(d)
                 pairs == {x \in BoundedSeq(Samples(kv[1]) \X Samples(kv[2]), MaxLen) :
                              \A i, j \in DOMAIN x : i # j => ~PyEq(x[i][1], x[j][1])}
             IN {IF d.cls = "_Dict" THEN DictV(x) ELSE DefaultDictV(x) : x \in pairs}
      [] d.cls = "_Tuple" /\ ~d.specialized ->
             {TupleV(x) : x \in BoundedSeq(AnyValues, MaxLen)}
      [] d.cls = "_Tuple" /\ d.specialized ->
             {TupleV(x) : x \in {y \in [DOMAIN d.parameters -> UNION {ValuesOf(d.parameters[i]) : i \in DOMAIN d.parameters}] :
                                     \A i \in DOMAIN y : y[i] \in ValuesOf(d.parameters[i])}}
      [] d.cls = "StructType" ->
             LET names == Range(SchemaNames(d.schema))
                 orders == {x \in BoundedSeq(names, Len(d.schema)) : Injective(x)}
                 all == UNION {Samples(d.schema[i][2]) : i \in DOMAIN d.schema}
             IN UNION {{StructV(SchemaNames(d.schema), [i \in DOMAIN o |-> <<o[i], f[i]>>]) :
                           f \in {g \in [DOMAIN o -> all] :
                                     \A i \in DOMAIN o : g[i] \in Samples(SchemaGet(d.schema, o[i]))}} :
                       o \in orders}
      [] OTHER -> {}

\* Values of no particular descriptor, offered to every descriptor.
Pool ==
    {IntV(5), StrV(<<"5">>), TupleV(<<IntV(0), StrV(<<"a">>), IntV(1)>>),
     ListV(<<IntV(0), StrV(<<"a">>)>>), ListV(<<IntV(0), StrV(<<"a">>), IntV(1)>>),
     DictV(<< <<Text("name"), Text("Bo")>> >>),
     DictV(<< <<Text("age"), IntV(1)>>, <<Text("name"), Text("Bo")>> >>),
     DictV(<< <<Text("note"), Text("x")>>, <<Text("name"), Text("Bo")>> >>),
     DictV(<< <<Text("age"), IntV(1)>> >>)}

Inputs(d) == ValuesOf(d) \cup Pool \cup {None}

(***************************************************************************)
(* The three runs.  Each is a specification of its own over the same       *)
(* variables; the variables of the other runs stay at their idle values.   *)
(***************************************************************************)
Idle == [t |-> "idle", v |-> 0]
\* The last operation of the record run and its outcome; none yet.
Result(op, name, arg, out) == [op |-> op, name |-> name, arg |-> arg, out |-> out]
NoResult == Result("", "", None, None)
\* The last operation of the descriptor run: the receiver, the argument,
\* the object returned (0 for none) and the exception raised ("" for none).
HeapResult(op, self, arg, ref, err) ==
    [op |-> op, self |-> self, arg |-> arg, ref |-> ref, err |-> err]
NoHeapResult == HeapResult("", 0, None, 0, "")
NoHeap == <<>>
Environments == {[order |-> o, now |-> DatetimeV(0, 0)] : o \in {"fwd", "rev"}}

codecVars == <<dsc, val, tgt, enc, dec, app, pc>>
recordVars == <<rec, res>>
heapVars == <<heap, hres>>

(***************************************************************************)
(* Conversion run: one descriptor, one input, one target; the input is     *)
(* encoded and the encoding decoded, or the input is decoded as it is, or  *)
(* walked by apply.                                                        *)
(***************************************************************************)
InitCodec ==
    /\ dsc \in Descriptors
    /\ val \in Inputs(dsc)
    /\ tgt \in {JSON, BSON}
    /\ enc = Idle /\ dec = Idle /\ app = Idle
    /\ pc = "start"
    /\ rec = Idle /\ res = NoResult
    /\ heap = NoHeap /\ hres = NoHeapResult
    /\ env \in Environments
    /\ sig = Idle

\* enc := dsc.to_jsony(val, tgt)
Encode ==
    /\ pc = "start"
    /\ enc' = to_jsony(dsc, val, tgt)
    /\ pc' = "encoded"
    /\ UNCHANGED <<dsc, val, tgt, dec, app, recordVars, heapVars, env, sig>>

\* dec := dsc.from_jsony(enc, tgt), once the encoding succeeded
Decode ==
    /\ pc = "encoded"
    /\ ~IsError(enc)
    /\ dec' = from_jsony(dsc, enc, tgt)
    /\ pc' = "decoded"
    /\ UNCHANGED <<dsc, val, tgt, enc, app, recordVars, heapVars, env, sig>>

\* dec := dsc.from_jsony(val, tgt): the input taken as an encoded form
Parse ==
    /\ pc = "start"
    /\ dec' = from_jsony(dsc, val, tgt)
    /\ pc' = "parsed"
    /\ UNCHANGED <<dsc, val, tgt, enc, app, recordVars, heapVars, env, sig>>

\* app := dsc.apply(val, func)
Apply ==
    /\ pc = "start"
    /\ \E f \in Funcs :
           app' = [func |-> f, out |-> apply(dsc, val, f, <<>>)]
    /\ pc' = "applied"
    /\ UNCHANGED <<dsc, val, tgt, enc, dec, recordVars, heapVars, env, sig>>

NextCodec == Encode \/ Decode \/ Parse \/ Apply

SpecCodec == InitCodec /\ [][NextCodec]_vars

(***************************************************************************)
(* Record run: one record of the class Member is constructed and then      *)
(* read, written and deleted from by name, and compared with a second      *)
(* record constructed on the spot.  res is the last operation:             *)
(* [op, name, arg, out], out being the value returned or the exception.    *)
(***************************************************************************)
Member ==
    struct("Member", << <<"name", Str>>, <<"age", default(Int_, IntV(0))>>,
                        <<"tags", empty(List)>>, <<"note", missing(Str)>> >>)

MemberNames == Range(SchemaNames(Member.schema))
\* The names the run accesses: the fields, a name that is neither a field
\* nor internal, and an internal name.
AccessNames == MemberNames \cup {"unknown"} \cup PrivateNames

\* The values the run stores under a name.
FieldValues(name) ==
    CASE name = "name" -> {Text("Bo")}
      [] name = "age" -> {IntV(i) : i \in 0..MaxInt}
      [] name = "tags" -> {TupleV(<<IntV(0)>>)}
      [] name = "note" -> {Text("x")}
      [] OTHER -> {IntV(1)}

RECURSIVE Kwargs(_)
\* The keyword arguments over the given names: any subset, in any order.
Kwargs(names) ==
    {<<>>} \cup
    UNION {{<< <<n, v>> >> \o rest : v \in FieldValues(n), rest \in Kwargs(names \ {n})} :
           n \in names}

\* Those over the fields of Member that name them in the order of the
\* schema.
Unset == [t |-> "unset", v |-> 0]
Supplied(pair) == pair[2] # Unset
OtherKwargs ==
    {SelectSeq(<< <<"name", a>>, <<"age", b>>, <<"tags", c>>, <<"note", d>> >>, Supplied) :
        a \in FieldValues("name") \cup {Unset}, b \in FieldValues("age") \cup {Unset},
        c \in FieldValues("tags") \cup {Unset}, d \in FieldValues("note") \cup {Unset}}

\* The arguments of the construction of the record under test.
NewKwargs == Kwargs(MemberNames \cup {"unknown"})


Init ==
    /\ rec = Idle /\ res = NoResult
    /\ dsc = Idle /\ val = Idle /\ tgt = Idle
    /\ enc = Idle /\ dec = Idle /\ app = Idle
    /\ pc = "idle"
    /\ heap = NoHeap /\ hres = NoHeapResult
    /\ env \in Environments
    /\ sig = Idle

\* rec = Member.new(**kwargs), once; rec stays unbound when new raises
New ==
    /\ rec = Idle /\ res = NoResult
    /\ \E kwargs \in NewKwargs :
           LET out == new(Member, kwargs)
           IN /\ res' = Result("new", "", kwargs, out)
              /\ rec' = IF IsError(out) THEN rec ELSE out
    /\ UNCHANGED <<codecVars, heapVars, env, sig>>

\* rec.name
GetAttr ==
    /\ rec # Idle
    /\ \E name \in AccessNames :
           LET r == Struct__getattr__(Member.schema, rec, name)
           IN /\ res' = Result("get", name, None, r.out)
              /\ rec' = r.self
    /\ UNCHANGED <<codecVars, heapVars, env, sig>>

\* rec.name = value
SetAttr ==
    /\ rec # Idle
    /\ \E name \in AccessNames : \E value \in FieldValues(name) :
           LET r == Struct__setattr__(Member.schema, rec, name, value)
           IN /\ res' = Result("set", name, value, r.out)
              /\ rec' = r.self
    /\ UNCHANGED <<codecVars, heapVars, env, sig>>

\* del rec.name
DelAttr ==
    /\ rec # Idle
    /\ \E name \in AccessNames :
           LET r == Struct__delattr__(Member.schema, rec, name)
           IN /\ res' = Result("del", name, None, r.out)
              /\ rec' = r.self
    /\ UNCHANGED <<codecVars, heapVars, env, sig>>

\* other = Member.new(**kwargs); rec == other, hash(rec), hash(other).
\* The run compares the record after its construction and after each set
\* and delete, which are the changes of it.
Compare ==
    /\ rec # Idle
    /\ res.op \in {"new", "set", "del"}
    /\ \E kwargs \in OtherKwargs :
           LET other == new(Member, kwargs)
           IN /\ ~IsError(other)
              /\ res' = Result("eq", "", other,
                               [eq |-> PyEq(rec, other), h1 |-> Hash(rec), h2 |-> Hash(other)])
    /\ UNCHANGED <<rec, codecVars, heapVars, env, sig>>

Next == New \/ GetAttr \/ SetAttr \/ DelAttr \/ Compare

Spec == Init /\ [][Next]_vars

(***************************************************************************)
(* Descriptor run: the descriptor objects live on a heap (a sequence, the  *)
(* reference of an object being its index).  The heap starts with one      *)
(* descriptor and one Placeholder; descriptors are derived from the        *)
(* objects of the heap, and Placeholders are resolved.                     *)
(***************************************************************************)
Bases == {Int_, List, Dict, Tuple, Person}
\* The arguments of default() and of a subscript.
DefaultArgs == {IntV(0)}
SubscriptArgs == {One(Int_), Many(<<Int_, Str>>), Many(<<Int_, Str, Int_>>)}

InitTypes ==
    /\ heap \in {<<d, Placeholder("Node")>> : d \in Bases}
    /\ hres = NoHeapResult
    /\ rec = Idle /\ res = NoResult
    /\ dsc = Idle /\ val = Idle /\ tgt = Idle
    /\ enc = Idle /\ dec = Idle /\ app = Idle
    /\ pc = "idle"
    /\ env \in {e \in Environments : e.order = "fwd"}
    /\ sig = Idle

\* A derivation that returned r
Derived(op, self, arg, r) ==
    /\ heap' = r.heap
    /\ hres' = HeapResult(op, self, arg, r.ref, "")
    /\ UNCHANGED <<codecVars, recordVars, env, sig>>

\* heap[self].default(x)
Default ==
    /\ Len(heap) < MaxHeap
    /\ \E self \in DOMAIN heap : \E x \in DefaultArgs :
           Derived("default", self, x, BasicType_default(heap, self, x))

\* heap[self].none
DeriveNone ==
    /\ Len(heap) < MaxHeap
    /\ \E self \in DOMAIN heap : Derived("none", self, None, BasicType_none(heap, self))

\* heap[self].empty
DeriveEmpty ==
    /\ Len(heap) < MaxHeap
    /\ \E self \in DOMAIN heap : Derived("empty", self, EMPTY, BasicType_empty(heap, self))

\* heap[self].missing
DeriveMissing ==
    /\ Len(heap) < MaxHeap
    /\ \E self \in DOMAIN heap : Derived("missing", self, MISSING, BasicType_missing(heap, self))

\* heap[self].required
DeriveRequired ==
    /\ Len(heap) < MaxHeap
    /\ \E self \in DOMAIN heap :
           Derived("required", self, REQUIRED, BasicType_required(heap, self))

\* heap[self][arg]
GetItem ==
    /\ \E self \in DOMAIN heap : \E arg \in SubscriptArgs :
           LET r == getitem(heap, self, arg)
           IN /\ r.err = "" => Len(heap) < MaxHeap
              /\ heap' = r.heap
              /\ hres' = HeapResult("getitem", self, arg, r.ref, r.err)
    /\ UNCHANGED <<codecVars, recordVars, env, sig>>

\* heap[self].resolve(heap[type]), type not being a Placeholder
Resolve ==
    /\ \E self, type \in DOMAIN heap :
           /\ heap[self].cls = "Placeholder"
           /\ heap[type].cls # "Placeholder"
           /\ LET r == resolve(heap, self, type)
              IN /\ heap' = r.heap
                 /\ hres' = HeapResult("resolve", self, type, 0, r.err)
    /\ UNCHANGED <<codecVars, recordVars, env, sig>>

NextTypes ==
    \/ Default \/ DeriveNone \/ DeriveEmpty \/ DeriveMissing \/ DeriveRequired
    \/ GetItem \/ Resolve

SpecTypes == InitTypes /\ [][NextTypes]_vars

(***************************************************************************)
(* Properties of the record run.                                           *)
(***************************************************************************)
Policy(n) == SchemaGet(Member.schema, n).dflt
Unsupplied(kwargs) == MemberNames \ FieldNames(kwargs)
\* The construction neither names an unknown field nor lacks a required one.
Constructible(kwargs) ==
    /\ FieldNames(kwargs) \subseteq MemberNames
    /\ \A n \in Unsupplied(kwargs) : Policy(n) # REQUIRED

\* C2: new(**kwargs) fails with the unknown-name error when a supplied name
\* is not in the schema, otherwise with the missing-argument error when a
\* required field is not supplied; otherwise the record holds every
\* supplied value, the default of every unsupplied field that has a
\* concrete one, and no value for an unsupplied MISSING field.
C2Construction ==
    res.op = "new" =>
        IF ~(FieldNames(res.arg) \subseteq MemberNames)
        THEN res.out = Error("NameError: Invalid argument")
        ELSE IF ~Constructible(res.arg)
        THEN res.out = Error("TypeError: Missing argument")
        ELSE /\ res.out.t = "struct"
             /\ \A i \in DOMAIN res.arg :
                    /\ HasField(res.out.v.fields, res.arg[i][1])
                    /\ FieldGet(res.out.v.fields, res.arg[i][1], None) = res.arg[i][2]
             /\ \A n \in Unsupplied(res.arg) :
                    /\ Policy(n).t # "DefaultValue" =>
                           /\ HasField(res.out.v.fields, n)
                           /\ FieldGet(res.out.v.fields, n, None) = Policy(n)
                    /\ Policy(n) = MISSING => ~HasField(res.out.v.fields, n)

\* new(name="Bo") gave a record whose age is 0.
C2Witness ==
    /\ res.op = "new"
    /\ res.arg = << <<"name", Text("Bo")>> >>
    /\ res.out.t = "struct"
    /\ FieldGet(res.out.v.fields, "age", None) = IntV(0)
    /\ ~HasField(res.out.v.fields, "note")

\* C3 as stated: after a construction that does not supply a field whose
\* policy is EMPTY, that field is not among the stored fields.
C3EmptyNotFilled ==
    (res.op = "new" /\ res.out.t = "struct") =>
        \A n \in Unsupplied(res.arg) : Policy(n) = EMPTY => ~HasField(res.out.v.fields, n)

\* C3 amended: after a construction that does not supply a field whose
\* policy is EMPTY, that field is stored and holds the result of the
\* zero-argument new() of its descriptor.
C3EmptyFilled ==
    (res.op = "new" /\ Constructible(res.arg)) =>
        /\ res.out.t = "struct"
        /\ \A n \in Unsupplied(res.arg) :
               Policy(n) = EMPTY =>
                   /\ HasField(res.out.v.fields, n)
                   /\ FieldGet(res.out.v.fields, n, None) = new0(SchemaGet(Member.schema, n))

\* A record was constructed without its tags, and tags is the empty list.
C3Witness ==
    /\ res.op = "new"
    /\ "tags" \notin FieldNames(res.arg)
    /\ res.out.t = "struct"
    /\ FieldGet(res.out.v.fields, "tags", None) = ListV(<<>>)

\* Every required field of r is stored.
RequiredPresent(r) == \A n \in MemberNames : Policy(n) = REQUIRED => HasField(r.v.fields, n)

\* C5 as stated: in every state of a record reached by construction, sets,
\* deletes and reads, a field of the schema is absent only if its policy is
\* not REQUIRED.
C5RequiredNeverAbsent == rec # Idle => RequiredPresent(rec)

\* A step of the record run keeps every stored field of the schema, except
\* that a delete of a stored field removes it, whatever its policy.
C5Step ==
    (rec # Idle /\ rec'.v.fields # rec.v.fields) =>
        /\ res'.op \in {"set", "del"}
        /\ \A n \in MemberNames :
               IF res'.op = "del" /\ res'.name = n
               THEN ~HasField(rec'.v.fields, n)
               ELSE HasField(rec.v.fields, n) => HasField(rec'.v.fields, n)

\* C5 amended: a constructed record stores every required field, and every
\* set and read keeps the stored fields stored, so that a required field is
\* never absent as long as it is not deleted; del removes a stored field
\* whatever its policy.
C5RequiredUntilDeleted ==
    /\ [](res.op = "new" /\ rec # Idle => RequiredPresent(rec))
    /\ [][C5Step]_vars

\* The defaulted field age was deleted; the required field name is stored.
C5Witness ==
    /\ rec # Idle
    /\ res.op = "del" /\ res.name = "age" /\ res.out = None
    /\ ~HasField(rec.v.fields, "age")
    /\ HasField(rec.v.fields, "name")

C6Names == rec # Idle => FieldNames(rec.v.fields) \subseteq MemberNames

C6Step ==
    res'.op \in {"get", "set", "del"} =>
        /\ (res'.name \notin MemberNames /\ ~startswith_(res'.name)) => res'.out = NoAttribute
        /\ (res'.op = "get" /\ res'.name \in MemberNames /\ ~HasField(rec.v.fields, res'.name)) =>
               res'.out = NotSet
        /\ IsError(res'.out) => rec' = rec

C7EqualityByContent ==
    res.op = "eq" =>
        /\ res.out.eq =
               \A n \in MemberNames :
                   IF HasField(rec.v.fields, n)
                   THEN /\ HasField(res.arg.v.fields, n)
                        /\ PyEq(FieldGet(rec.v.fields, n, None), FieldGet(res.arg.v.fields, n, None))
                   ELSE ~HasField(res.arg.v.fields, n)
        /\ res.out.eq => res.out.h1 = res.out.h2

\* Two hashable records that stored their fields in different orders were
\* found equal.
C7Witness ==
    /\ res.op = "eq"
    /\ res.out.eq
    /\ FieldNames(rec.v.fields) = FieldNames(res.arg.v.fields)
    /\ rec.v.fields # res.arg.v.fields
    /\ ~IsError(res.out.h1)

(***************************************************************************)
(* Reference run: the heap starts with one descriptor D and one            *)
(* Placeholder P; descriptors are derived from P, Placeholders are         *)
(* resolved to D, and the operations of a Placeholder are called.          *)
(***************************************************************************)
\* klass.__name__.capitalize()
Capitalize(klass) ==
    CASE klass = "int" -> "Int" [] klass = "str" -> "Str" [] klass = "bool" -> "Bool"
      [] klass = "float" -> "Float" [] klass = "bytes" -> "Bytes"
      [] klass = "datetime" -> "Datetime" [] klass = "Path" -> "Path"
      [] klass = "list" -> "List" [] klass = "dict" -> "Dict"
      [] klass = "tuple" -> "Tuple" [] klass = "defaultdict" -> "Defaultdict"
      [] OTHER -> klass

RECURSIVE BasicType_klass(_), BasicType_name(_), JoinNames(_)

\* The klass property, with the forwarding of Placeholder.
BasicType_klass(d) ==
    IF d.cls = "Placeholder"
    THEN (IF d.type = <<>> THEN Unresolved ELSE BasicType_klass(Forwarded(d)))
    ELSE ClassV(d.klass)

\* ", ".join([p.name for p in parameters])
JoinNames(parameters) ==
    IF parameters = <<>> THEN ""
    ELSE IF Len(parameters) = 1 THEN BasicType_name(parameters[1])
    ELSE BasicType_name(parameters[1]) \o ", " \o JoinNames(Tail(parameters))

\* The name property of each descriptor class.  Placeholder.name is the
\* function under the decorator _forward_if, which returns the function it
\* was given: the debug name, resolved or not.
BasicType_name(d) ==
    CASE d.cls = "Placeholder" -> d.name
      [] d.cls = "_Any" -> "Any"
      [] d.cls \in StructClasses -> d.name
      [] d.cls \in TemplateClasses ->
             LET base_name == IF d.cls = "_DefaultDict" THEN "DefaultDict"
                              ELSE Capitalize(d.klass)
             IN IF ~d.specialized THEN base_name
                ELSE base_name \o "[" \o JoinNames(d.parameters) \o "]"
      [] OTHER -> Capitalize(d.klass)

UseOps == {"klass", "name", "default_value", "new", "to_jsony", "from_jsony", "apply"}

\* The outcome of d.op: the value returned or the exception raised; for
\* apply, with the calls of func.  a is [value, target, func].
Use(d, op, a) ==
    CASE op = "klass" -> BasicType_klass(d)
      [] op = "name" -> StrV(BasicType_name(d))
      [] op = "default_value" -> default_value(d)
      [] op = "new" -> new0(d)
      [] op = "to_jsony" -> to_jsony(d, a.value, a.target)
      [] op = "from_jsony" -> from_jsony(d, a.value, a.target)
      [] op = "apply" -> apply(d, a.value, a.func, <<>>)

\* The descriptors a Placeholder is resolved to, and the arguments of the
\* operations.
Targets == {Int_, default(Int_, IntV(0)), Sub(List, One(Int_)), empty(List), Person}
UseValues == {None, IntV(0), ListV(<<IntV(0)>>), Text("x")}
NoArgs == [value |-> None, target |-> JSON, func |-> "same"]
UseArgs(op) ==
    IF op \in {"to_jsony", "from_jsony"}
    THEN {[value |-> v, target |-> t, func |-> "same"] : v \in UseValues, t \in {JSON, BSON}}
    ELSE IF op = "apply"
    THEN {[value |-> v, target |-> JSON, func |-> f] : v \in UseValues, f \in Funcs}
    ELSE {NoArgs}

InitRefs ==
    /\ heap \in {<<d, Placeholder("Node")>> : d \in Targets}
    /\ hres = NoHeapResult
    /\ rec = Idle /\ res = NoResult
    /\ dsc = Idle /\ val = Idle /\ tgt = Idle
    /\ enc = Idle /\ dec = Idle /\ app = Idle
    /\ pc = "idle"
    /\ env \in {e \in Environments : e.order = "fwd"}
    /\ sig = Idle

\* P.default(x), P.none, P.empty, P.missing or P.required, P being
\* heap[2]; the run derives one copy, which is heap[3].
DeriveRef ==
    /\ Len(heap) = 2
    /\ \E x \in DefaultArgs \cup {None, EMPTY, MISSING, REQUIRED} :
           LET r == BasicType_default(heap, 2, x)
           IN /\ heap' = r.heap
              /\ hres' = HeapResult("default", 2, x, r.ref, "")
    /\ res' = NoResult
    /\ UNCHANGED <<codecVars, rec, env, sig>>

\* heap[self].resolve(D), D being heap[1]
ResolveRef ==
    /\ \E self \in DOMAIN heap :
           /\ heap[self].cls = "Placeholder"
           /\ LET r == resolve(heap, self, 1)
              IN /\ heap' = r.heap
                 /\ hres' = HeapResult("resolve", self, 1, 0, r.err)
    /\ res' = NoResult
    /\ UNCHANGED <<codecVars, rec, env, sig>>

\* An operation of the Placeholder heap[self] is called.
UseRef ==
    /\ \E self \in DOMAIN heap : \E op \in UseOps : \E a \in UseArgs(op) :
           /\ heap[self].cls = "Placeholder"
           /\ res' = Result(op, "", [self |-> self, value |-> a.value,
                                     target |-> a.target, func |-> a.func],
                            Use(heap[self], op, a))
    /\ UNCHANGED <<codecVars, rec, heapVars, env, sig>>

NextRefs == DeriveRef \/ ResolveRef \/ UseRef

SpecRefs == InitRefs /\ [][NextRefs]_vars

(***************************************************************************)
(* Reflection run: a class F with some __init__ signature is reflected on  *)
(* (class_type), a record of the derived descriptor is constructed, and    *)
(* the record is converted back to an instance of F.                       *)
(***************************************************************************)
\* The parameters a signature is made of.
NamedParameters ==
    {Parameter("x", POSITIONAL_OR_KEYWORD, ClassV("int"), ParameterEmpty),
     Parameter("y", POSITIONAL_OR_KEYWORD, ParameterEmpty, ParameterEmpty),
     Parameter("e", POSITIONAL_OR_KEYWORD, ClassV("E"), ParameterEmpty),
     Parameter("w", POSITIONAL_OR_KEYWORD, ParameterEmpty, IntV(0)),
     Parameter("v", POSITIONAL_OR_KEYWORD, ParameterEmpty, None)}
VarPositionals ==
    {Parameter("rest", VAR_POSITIONAL, a, ParameterEmpty) :
         a \in {ParameterEmpty, ClassV("int"), PyBasic(Sub(List, One(Int_)))}}
VarKeywords == {Parameter("opts", VAR_KEYWORD, ParameterEmpty, ParameterEmpty)}

\* The signatures Python accepts: distinct names, no parameter without
\* default after one with a default, then *rest, then **opts.
Signatures ==
    {named \o rest \o opts :
         named \in {s \in BoundedSeq(NamedParameters, MaxLen) :
                        /\ \A i, j \in DOMAIN s : i # j => s[i].name # s[j].name
                        /\ \A i, j \in DOMAIN s :
                               (i < j /\ s[i].default # ParameterEmpty)
                                   => s[j].default # ParameterEmpty},
         rest \in {<<>>} \cup {<<p>> : p \in VarPositionals},
         opts \in {<<>>} \cup {<<p>> : p \in VarKeywords}}

\* The overrides given to class_type.
Extras == {<<>>, << <<"y", ClassV("int")>> >>, << <<"y", IntV(1)>> >>}

\* The values a field is constructed with.
ReflectValues(name) ==
    CASE name = "rest" -> {ListV(<<IntV(0), IntV(1)>>)}
      [] name = "opts" -> {DictV(<< <<Text("k"), IntV(1)>> >>), DictV(<< <<Text("x"), IntV(0)>> >>)}
      [] name = "e" -> {Struct__init__(<< <<"a", default(Int_, IntV(1))>> >>, <<>>)}
      [] name = "v" -> {Text("x")}
      [] OTHER -> {IntV(1)}

\* The keyword lists over names, in order, each name supplied or not.
RECURSIVE ReflectKwargs(_)
ReflectKwargs(names) ==
    IF names = <<>> THEN {<<>>}
    ELSE LET tails == ReflectKwargs(Tail(names))
         IN tails \cup {<< <<names[1], x>> >> \o t : x \in ReflectValues(names[1]), t \in tails}

InitReflect ==
    /\ sig \in {[klass |-> "F", parameters |-> s, extra |-> x] : s \in Signatures, x \in Extras}
    /\ dsc = Idle /\ val = Idle /\ tgt = Idle
    /\ enc = Idle /\ dec = Idle /\ app = Idle
    /\ pc = "start"
    /\ rec = Idle /\ res = NoResult
    /\ heap = NoHeap /\ hres = NoHeapResult
    /\ env \in {e \in Environments : e.order = "fwd"}

\* dsc := class_type(F, **extra)
Reflect ==
    /\ pc = "start"
    /\ dsc' = class_type(sig.klass, sig.parameters, sig.extra)
    /\ pc' = "derived"
    /\ UNCHANGED <<val, tgt, enc, dec, app, recordVars, heapVars, env, sig>>

\* val := dsc.new(**kwargs)
Construct ==
    /\ pc = "derived" /\ ~IsError(dsc)
    /\ \E kwargs \in ReflectKwargs(SchemaNames(dsc.v.schema)) : val' = new(dsc.v, kwargs)
    /\ pc' = "made"
    /\ UNCHANGED <<dsc, tgt, enc, dec, app, recordVars, heapVars, env, sig>>

\* app := convert(dsc, val)
Convert ==
    /\ pc = "made" /\ ~IsError(val)
    /\ app' = apply(dsc.v, val, "_transform", <<>>)
    /\ pc' = "converted"
    /\ UNCHANGED <<dsc, val, tgt, enc, dec, recordVars, heapVars, env, sig>>

NextReflect == Reflect \/ Construct \/ Convert

SpecReflect == InitReflect /\ [][NextReflect]_vars

(***************************************************************************)
(* Descriptor equality (types.py 73-76, 281-285; struct.py 155-159,        *)
(* 182-185; inspection.py 52-55) and the equality run: two descriptor      *)
(* objects are compared.                                                   *)
(***************************************************************************)
\* struct.lambda_struct(name, **schema): the class is Struct itself and
\* the factory a _WithAttrsFactory holding the schema; name "" is None.
lambda_struct(name, schema) ==
    [Blank EXCEPT !.cls = "StructType", !.klass = "Struct", !.schema = schema,
                  !.name = name]

\* The descriptor of one more call of struct(name, **schema): every call
\* creates a class object of its own, here the one numbered serial.
struct_again(name, schema, serial) ==
    [struct(name, schema) EXCEPT !.klass = name \o "#" \o serial]

RECURSIVE BasicType__eq__(_, _)

\* a._parameters == b._parameters: None, or tuples compared item by item
ParametersEq(a, b) ==
    /\ a.specialized = b.specialized
    /\ Len(a.parameters) = Len(b.parameters)
    /\ \A i \in DOMAIN a.parameters : BasicType__eq__(a.parameters[i], b.parameters[i])

\* a._schema == b._schema: two dicts are equal when they hold the same
\* keys with equal values, in whatever order
SchemaEq(a, b) ==
    /\ Len(a.schema) = Len(b.schema)
    /\ \A i \in DOMAIN a.schema :
           /\ HasName(b.schema, a.schema[i][1])
           /\ BasicType__eq__(a.schema[i][2], SchemaGet(b.schema, a.schema[i][1]))

\* a._factory == b._factory: a class made by struct() is equal to itself
\* only; two _WithAttrsFactory are equal when their attributes (the
\* schema) and their class (Struct) are.
FactoryEq(a, b) ==
    IF a.klass = "Struct" /\ b.klass = "Struct" THEN SchemaEq(a, b)
    ELSE a.klass = b.klass

\* The __eq__ of each descriptor class.
BasicType__eq__(a, b) ==
    /\ a.cls = b.cls
    /\ PyEq(a.dflt, b.dflt) /\ a.klass = b.klass
    /\ a.cls \in TemplateClasses => ParametersEq(a, b)
    /\ a.cls \in StructClasses =>
           SchemaEq(a, b) /\ FactoryEq(a, b) /\ a.name = b.name
    /\ a.cls = "ClassType" => a.convert_class = b.convert_class

\* The descriptors compared.
EqSchemas ==
    {<< <<"a", Int_>>, <<"b", Str>> >>, << <<"b", Str>>, <<"a", Int_>> >>,
     << <<"a", Int_>> >>, << <<"a", Str>> >>}
EqDescriptors ==
    {Int_, Str, Bool, Float, Any_, none(Int_), default(Int_, IntV(0)), default(Int_, IntV(1)),
     List, Sub(List, One(Int_)), Sub(List, One(Str)), empty(Sub(List, One(Int_))),
     Sub(Dict, One(Int_)), Sub(Dict, Many(<<Str, Int_>>)), Sub(DefaultDict, One(Int_)),
     Sub(Tuple, Many(<<Int_, Str>>)), Sub(Tuple, Many(<<Str, Int_>>)),
     Placeholder("A"), Placeholder("B")}
    \cup {lambda_struct("", s) : s \in EqSchemas}
    \cup {lambda_struct("A", << <<"a", Int_>> >>), struct("P", << <<"a", Int_>> >>),
          struct_again("P", << <<"a", Int_>> >>, "2"),
          none(struct("P", << <<"a", Int_>> >>))}

InitEq ==
    /\ heap \in {<<a, b>> : a, b \in EqDescriptors}
    /\ hres = NoHeapResult
    /\ rec = Idle /\ res = NoResult
    /\ dsc = Idle /\ val = Idle /\ tgt = Idle
    /\ enc = Idle /\ dec = Idle /\ app = Idle
    /\ pc = "idle"
    /\ env \in {e \in Environments : e.order = "fwd"}
    /\ sig = Idle

\* heap[1] == heap[2], and heap[2] == heap[1]
Equal ==
    /\ res = NoResult
    /\ res' = Result("eq", "", None,
                     [eq |-> BasicType__eq__(heap[1], heap[2]),
                      qe |-> BasicType__eq__(heap[2], heap[1])])
    /\ UNCHANGED <<codecVars, rec, heapVars, env, sig>>

NextEq == Equal

SpecEq == InitEq /\ [][NextEq]_vars

(***************************************************************************)
(* Sharing run: records of one class are constructed without arguments     *)
(* and the lists and dicts they hold are changed in place.  Here heap is   *)
(* the store of the mutable objects, a record field holds the reference    *)
(* of its object, rec is the sequence of the records constructed and val   *)
(* the contents the default objects had when the descriptor was declared.  *)
(***************************************************************************)
Ref(a) == [t |-> "ref", v |-> a]
IsMutable(value) == value.t \in {"list", "dict", "defaultdict"}

\* The record descriptors of the run: xs is List[Int].default(o1) or
\* List[Int].empty, zs is Dict.default(o2) or Dict.empty, o1 and o2 being
\* the objects at the references 1 and 2; n is Int.default(0).
Shared ==
    {struct("Q", << <<"xs", xs>>, <<"zs", zs>>, <<"n", default(Int_, IntV(0))>> >>) :
        xs \in {default(Sub(List, One(Int_)), Ref(1)), empty(Sub(List, One(Int_)))},
        zs \in {default(Dict, Ref(2)), empty(Dict)}}

RECURSIVE Allocate(_, _, _)
\* The fields bound by Struct.__init__ on the object store: a value that
\* default_value has just created becomes a new object of the store, a
\* reference that default_value returned is bound as it is.
\* [store, fields].
Allocate(fields, store, done) ==
    IF fields = <<>> THEN [store |-> store, fields |-> done]
    ELSE LET name == fields[1][1]
             value == fields[1][2]
         IN IF IsMutable(value)
            THEN Allocate(Tail(fields), Append(store, value),
                          Append(done, <<name, Ref(Len(store) + 1)>>))
            ELSE Allocate(Tail(fields), store, Append(done, <<name, value>>))

\* value.append(1) on a list, value["k"] = 1 on a dict
MutateInPlace(value) ==
    IF value.t = "list" THEN ListV(Append(value.v, IntV(1)))
    ELSE [value EXCEPT !.v = Store(value.v, Text("k"), IntV(1))]
IsMutated(value) ==
    IF value.t = "list" THEN \E i \in DOMAIN value.v : value.v[i] = IntV(1)
    ELSE HasField(value.v, Text("k"))

InitShare ==
    /\ dsc \in Shared
    /\ heap \in {<<ListV(x), DictV(<<>>)>> : x \in {<<>>, <<IntV(0)>>}}
    /\ val = heap
    /\ rec = <<>>
    /\ res = NoResult /\ hres = NoHeapResult
    /\ tgt = Idle /\ enc = Idle /\ dec = Idle /\ app = Idle
    /\ pc = "idle"
    /\ env \in Environments
    /\ sig = Idle

\* rec.append(Q.new())
NewRecord ==
    /\ Len(rec) < MaxHeap
    /\ LET made == new(dsc, <<>>)
           bound == Allocate(made.v.fields, heap, <<>>)
       IN /\ ~IsError(made)
          /\ heap' = bound.store
          /\ rec' = Append(rec, [made EXCEPT !.v.fields = bound.fields])
    /\ UNCHANGED <<dsc, val, tgt, enc, dec, app, pc, res, hres, env, sig>>

\* rec[r].name.append(1), or rec[r].name["k"] = 1: the field is read and
\* the object it returns is changed in place.
MutateField ==
    /\ \E r \in DOMAIN rec : \E name \in {"xs", "zs"} :
           LET got == Struct__getattr__(dsc.schema, rec[r], name).out
           IN /\ got.t = "ref"
              /\ ~IsMutated(heap[got.v])
              /\ heap' = [heap EXCEPT ![got.v] = MutateInPlace(@)]
    /\ UNCHANGED <<dsc, val, tgt, enc, dec, app, pc, rec, res, hres, env, sig>>

NextShare == NewRecord \/ MutateField

SpecShare == InitShare /\ [][NextShare]_vars

(***************************************************************************)
(* Properties of the descriptor run.                                       *)
(***************************************************************************)
Derivations == {"default", "none", "empty", "missing", "required", "getitem"}
AlreadySpecialized == "ValueError: Cannot specialize already specialized type"
\* The messages of the ValueError a subscript raises.
SubscriptErrors ==
    {AlreadySpecialized, "ValueError: List takes only one template parameter",
     "ValueError: Dict takes one or two template parameters"}

\* The default policy that the derivation op with argument x sets.
PolicySet(op, x) ==
    CASE op = "default" -> x
      [] op = "none" -> None
      [] op = "empty" -> EMPTY
      [] op = "missing" -> MISSING
      [] op = "required" -> REQUIRED

\* A derivation leaves every object of the heap as it was; when it returns,
\* the object returned is a new one that differs from the receiver in the
\* attribute derived only; when it raises, no object is allocated; a
\* subscript of a parametrized container raises.
C9Step ==
    hres'.op \in Derivations =>
        /\ Len(heap') >= Len(heap)
        /\ \A i \in DOMAIN heap : heap'[i] = heap[i]
        /\ IF hres'.err = ""
           THEN /\ Len(heap') = Len(heap) + 1
                /\ hres'.ref = Len(heap')
                /\ IF hres'.op = "getitem"
                   THEN /\ heap'[hres'.ref].specialized
                        /\ ~heap[hres'.self].specialized
                        /\ heap'[hres'.ref].dflt = heap[hres'.self].dflt
                   ELSE /\ heap'[hres'.ref].dflt = PolicySet(hres'.op, hres'.arg)
                        /\ heap'[hres'.ref].specialized = heap[hres'.self].specialized
                        /\ heap'[hres'.ref].parameters = heap[hres'.self].parameters
           ELSE /\ heap' = heap
                /\ hres'.op = "getitem"
        /\ (hres'.op = "getitem" /\ heap[hres'.self].specialized) =>
               hres'.err \in SubscriptErrors

\* C9: each of default(x), none, empty, missing, required and a subscript
\* returns a new descriptor object and leaves the default policy and the
\* parameters of its receiver (and of every other object) unchanged; a
\* subscript of an already parametrized container fails and changes
\* nothing.
C9DerivationCopies == [][C9Step]_vars

\* A subscript returned a parametrized copy of a receiver that still has no
\* parameters.
C9Witness ==
    /\ hres.op = "getitem" /\ hres.err = ""
    /\ hres.ref # hres.self
    /\ heap[hres.ref].specialized
    /\ ~heap[hres.self].specialized

StartsUnresolved ==
    \A p \in DOMAIN heap : heap[p].cls = "Placeholder" => heap[p].type = <<>>

C10Step ==
    /\ \A p \in DOMAIN heap :
           (heap[p].cls = "Placeholder" /\ heap[p].type # <<>>) =>
               heap'[p].type = heap[p].type
    /\ \A p \in DOMAIN heap :
           heap'[p].type # heap[p].type => hres'.op = "resolve" /\ hres'.self = p
    /\ hres'.op = "resolve" =>
           IF heap[hres'.self].type = <<>>
           THEN /\ hres'.err = ""
                /\ heap'[hres'.self].type = <<heap[hres'.arg]>>
           ELSE /\ hres'.err = "AssertionError"
                /\ heap' = heap

\* C10: a Placeholder starts unresolved; resolve(D) on an unresolved one
\* binds it to D; once bound it keeps that binding in every later state,
\* and a resolve on a bound one fails with the assertion error and changes
\* nothing.
C10ResolveOnce == StartsUnresolved /\ [][C10Step]_vars

\* A resolve to another descriptor failed on a Placeholder already bound.
C10Witness ==
    /\ hres.op = "resolve" /\ hres.err = "AssertionError"
    /\ heap[hres.self].type # <<>>
    /\ heap[hres.self].type[1] # heap[hres.arg]

(***************************************************************************)
(* Properties of the conversion run.                                       *)
(***************************************************************************)
RECURSIVE Valid(_, _)
\* Whether v is a value of the shape d describes: None, or an instance of
\* the class of d whose items are valid under the parameters of d; a
\* record may lack the fields that are not required.
Valid(d, v) ==
    \/ v = None
    \/ CASE d.cls \in {"BuiltinType", "_Any", "_Bytes", "_Datetime", "_Path"} ->
                d.klass \in Classes(v)
         [] d.cls = "_Float" -> Classes(v) \cap {"float", "int"} # {}
         [] d.cls = "_List" ->
                v.t = "list" /\ \A i \in DOMAIN v.v : Valid(_get_parameter(d), v.v[i])
         [] d.cls \in {"_Dict", "_DefaultDict"} ->
                /\ v.t = (IF d.cls = "_Dict" THEN "dict" ELSE "defaultdict")
                /\ \A i \in DOMAIN v.v :
                       /\ Valid(_get_parameters(d)[1], v.v[i][1])
                       /\ Valid(_get_parameters(d)[2], v.v[i][2])
         [] d.cls = "_Tuple" ->
                /\ v.t = "tuple"
                /\ d.specialized =>
                       /\ Len(v.v) = Len(d.parameters)
                       /\ \A i \in DOMAIN v.v : Valid(d.parameters[i], v.v[i])
         [] d.cls = "StructType" ->
                /\ v.t = "struct"
                /\ v.v.schema = SchemaNames(d.schema)
                /\ \A i \in DOMAIN v.v.fields :
                       /\ HasName(d.schema, v.v.fields[i][1])
                       /\ Valid(SchemaGet(d.schema, v.v.fields[i][1]), v.v.fields[i][2])
                /\ \A i \in DOMAIN d.schema :
                       ~HasField(v.v.fields, d.schema[i][1]) => d.schema[i][2].dflt # REQUIRED
         [] OTHER -> FALSE

\* C1: for every descriptor D, every value V valid under D (None and
\* records with an absent non-required field included) and each target T,
\* D.to_jsony(V, T) succeeds and D.from_jsony of it succeeds and equals V.
C1RoundTrip ==
    Valid(dsc, val) =>
        /\ pc \in {"encoded", "decoded"} => ~IsError(enc)
        /\ pc = "decoded" => ~IsError(dec) /\ PyEq(dec, val)

\* The keys of an encoded mapping, as field names of schema.
KeyNames(schema, m) ==
    {schema[j][1] : j \in {k \in DOMAIN schema : \E i \in DOMAIN m.v : m.v[i][1] = Text(schema[k][1])}}

\* An encoded mapping whose keys are field names of the record descriptor
\* d and whose values decode under the descriptors of their fields.
IsEncodedRecord(d, m, source) ==
    /\ d.cls = "StructType"
    /\ m.t = "dict"
    /\ \A i \in DOMAIN m.v :
           /\ \E j \in DOMAIN d.schema : m.v[i][1] = Text(d.schema[j][1])
           /\ \A j \in DOMAIN d.schema :
                  m.v[i][1] = Text(d.schema[j][1]) =>
                      ~IsError(from_jsony(d.schema[j][2], m.v[i][2], source))

ArityError == Error("ValueError: Expected tuple of length")

\* The entries apply appends to the log for a tuple whose items are
\* walked with the leaf descriptors ds.
TupleLog(d, ds, items, f) ==
    [i \in DOMAIN items |-> <<ds[i], items[i]>>]
        \o << <<d, TupleV([i \in DOMAIN items |-> Func(f, ds[i], items[i])])>> >>

\* What the claim expects of a sequence of N items under the descriptors
\* ds: each of the three operations handles item i with ds[i].
TupleElementwise(d, ds, items) ==
    /\ pc = "encoded" =>
           enc = Collect([i \in DOMAIN items |-> to_jsony(ds[i], items[i], tgt)])
    /\ pc = "parsed" =>
           LET r == Collect([i \in DOMAIN items |-> from_jsony(ds[i], items[i], tgt)])
           IN dec = IF IsError(r) THEN r ELSE TupleV(r.v)
    /\ pc = "applied" =>
           /\ app.out.log = TupleLog(d, ds, items, app.func)
           /\ app.out.ret = Func(app.func, d, app.out.log[Len(app.out.log)][2])

\* C8: under a Tuple of N parameters, to_jsony, from_jsony and apply fail
\* with the arity error on a list or tuple of another length and handle
\* item i of one of length N with parameter i; an unparametrized Tuple
\* takes any length and handles every item as Any.
C8TupleArity ==
    (dsc.cls = "_Tuple" /\ val.t \in {"tuple", "list"}) =>
        IF dsc.specialized /\ Len(val.v) # Len(dsc.parameters)
        THEN /\ pc = "encoded" => enc = ArityError
             /\ pc = "parsed" => dec = ArityError
             /\ pc = "applied" => app.out.ret = ArityError /\ app.out.log = <<>>
        ELSE IF dsc.specialized
        THEN TupleElementwise(dsc, dsc.parameters, val.v)
        ELSE TupleElementwise(dsc, [i \in DOMAIN val.v |-> Any_], val.v)

\* Tuple[Int, Str] was given three items, and the operation failed.
C8Witness ==
    /\ dsc = TupleIntStr
    /\ val.t = "tuple" /\ Len(val.v) = 3
    /\ pc = "encoded" /\ enc = ArityError

(***************************************************************************)
(* Properties of the reference run.                                        *)
(***************************************************************************)
\* The last operation was called on a Placeholder that is unresolved.
UsedUnresolved == res.op \in UseOps /\ heap[res.arg.self].type = <<>>
\* The outcome of the last operation is an exception.
UseFailed == IF res.op = "apply" THEN IsError(res.out.ret) ELSE IsError(res.out)

\* C11 as stated: on an unresolved Placeholder every operation but name
\* fails, whatever its argument, None included.
C11AllFail ==
    UsedUnresolved =>
        IF res.op = "name" THEN res.out = StrV(heap[res.arg.self].name)
        ELSE UseFailed

\* C11 amended: on an unresolved Placeholder name returns the debug name;
\* klass, default_value and new fail; to_jsony, from_jsony and apply fail
\* on an argument that is not None, without a call of func; to_jsony and
\* from_jsony of None return None, and apply of None returns
\* func(P, None).
C11UnresolvedFails ==
    UsedUnresolved =>
        LET P == heap[res.arg.self]
            failed == Error("TypeError: super() argument 1 must be type")
        IN CASE res.op = "name" -> res.out = StrV(P.name)
             [] res.op \in {"klass", "default_value", "new"} -> res.out = failed
             [] res.op \in {"to_jsony", "from_jsony"} ->
                    res.out = IF res.arg.value = None THEN None ELSE failed
             [] res.op = "apply" ->
                    IF res.arg.value = None
                    THEN /\ res.out.ret = Func(res.arg.func, P, None)
                         /\ res.out.log = << <<P, None>> >>
                    ELSE res.out.ret = failed /\ res.out.log = <<>>

\* to_jsony of a value that is not None failed on an unresolved
\* Placeholder.
C11Witness ==
    /\ UsedUnresolved
    /\ res.op = "to_jsony" /\ res.arg.value = IntV(0)
    /\ IsError(res.out)

\* The last operation was called on the Placeholder P after P.resolve(D).
UsedResolved == res.op \in UseOps /\ res.arg.self = 2 /\ heap[2].type # <<>>

\* C12 as stated: after P.resolve(D) every operation of P returns what
\* the same operation of D returns, or fails as it does.
C12BehavesAsTarget ==
    UsedResolved =>
        LET expected == Use(heap[1], res.op,
                            [value |-> res.arg.value, target |-> res.arg.target,
                             func |-> res.arg.func])
        IN IF res.op = "apply" THEN res.out.ret = expected.ret ELSE res.out = expected

\* C19 as stated: a descriptor derived from P while P was unresolved
\* behaves, once P is resolved, as D with the derived default policy.
C19DerivedResolved ==
    \A self \in DOMAIN heap :
        (/\ self > 2 /\ heap[self].type = <<>> /\ heap[2].type # <<>>
         /\ res.op \in UseOps \ {"klass", "name"} /\ res.arg.self = self) =>
            LET expected == Use(default(heap[1], heap[self].dflt), res.op,
                                [value |-> res.arg.value, target |-> res.arg.target,
                                 func |-> res.arg.func])
            IN IF res.op = "apply" THEN res.out.ret = expected.ret ELSE res.out = expected

(***************************************************************************)
(* Properties of the reflection run.                                       *)
(***************************************************************************)
\* The signature f(self, x: int, *rest, **opts).
ScenarioSignature ==
    <<Parameter("x", POSITIONAL_OR_KEYWORD, ClassV("int"), ParameterEmpty),
      Parameter("rest", VAR_POSITIONAL, ParameterEmpty, ParameterEmpty),
      Parameter("opts", VAR_KEYWORD, ParameterEmpty, ParameterEmpty)>>
\* The parameter has no override among the extras of the run.
NoOverride(p) == ExtraGet(sig.extra, p.name) = None

\* C13 as stated: the signature (x: int, *rest, **opts) gives the schema
\* x = Int, rest = List[Any].empty, opts = Dict[Str, Any].empty in that
\* order; and for every signature the fields are the parameters in order,
\* a variadic-positional parameter giving a List field and a
\* variadic-keyword parameter a Dict field, each with the EMPTY policy
\* when it has no explicit default.
C13VariadicFields ==
    pc # "start" =>
        /\ (sig.parameters = ScenarioSignature /\ sig.extra = <<>>) =>
               dsc = PyBasic(_class_struct("F", "rest", "opts",
                                 << <<"x", Int_>>,
                                    <<"rest", empty(Sub(List, One(Any_)))>>,
                                    <<"opts", empty(Sub(Dict, Many(<<Str, Any_>>)))>> >>,
                                 FALSE))
        /\ (\A i \in DOMAIN sig.parameters : NoOverride(sig.parameters[i])) =>
               /\ ~IsError(dsc)
               /\ SchemaNames(dsc.v.schema) = [i \in DOMAIN sig.parameters |-> sig.parameters[i].name]
               /\ \A i \in DOMAIN sig.parameters :
                      LET p == sig.parameters[i]
                          field == dsc.v.schema[i][2]
                      IN /\ p.kind = VAR_POSITIONAL => field.cls = "_List" /\ field.dflt = EMPTY
                         /\ p.kind = VAR_KEYWORD => field.cls = "_Dict" /\ field.dflt = EMPTY

\* The signature has a named parameter, *rest and **opts, none of them
\* annotated with anything but a builtin class.
NamedRestOpts ==
    /\ \E i \in DOMAIN sig.parameters : sig.parameters[i].kind = POSITIONAL_OR_KEYWORD
    /\ \E i \in DOMAIN sig.parameters :
           sig.parameters[i].kind = VAR_POSITIONAL /\ sig.parameters[i].annotation = ParameterEmpty
    /\ \E i \in DOMAIN sig.parameters : sig.parameters[i].kind = VAR_KEYWORD

\* C14 as stated: converting a record of a schema derived from named
\* parameters, *rest and **opts calls F so that every named parameter is
\* bound to the value of its field, rest to the elements of the field
\* rest, and opts to the entries of the field opts, also when rest is
\* not empty.  (Records whose opts name a parameter of F are left out.)
C14Reconstruction ==
    (/\ pc = "converted" /\ NamedRestOpts
     /\ \A i \in DOMAIN sig.parameters :
            ~HasField(FieldGet(val.v.fields, "opts", DictV(<<>>)).v,
                      Text(sig.parameters[i].name))) =>
        app.ret = ObjectV("F",
            [i \in DOMAIN sig.parameters |->
                LET p == sig.parameters[i]
                    field == FieldGet(val.v.fields, p.name, None)
                IN <<p.name,
                     CASE p.kind = VAR_POSITIONAL -> TupleV(field.v)
                       [] p.kind = VAR_KEYWORD -> DictV(field.v)
                       [] OTHER -> _transform(SchemaGet(dsc.v.schema, p.name), field)>>])

\* The annotation names a class whose derived record is
\* empty-constructible.
NestedEmptyConstructible(p) ==
    /\ p.annotation.t = "type"
    /\ LET d == guess_type(p.annotation)
       IN ~IsError(d) /\ d.v.cls = "ClassType" /\ d.v.empty_constructible

\* C20 as stated: a non-variadic parameter without default and without
\* override, annotated or not, gives a required field (has_default is
\* false); and a field has a default only if its parameter has one, is
\* variadic, or is a nested empty-constructible reflective record.
C20Requiredness ==
    (pc # "start" /\ ~IsError(dsc)) =>
        \A i \in DOMAIN sig.parameters :
            LET p == sig.parameters[i]
                field == dsc.v.schema[i][2]
            IN NoOverride(p) =>
                   /\ (/\ p.kind = POSITIONAL_OR_KEYWORD /\ p.default = ParameterEmpty
                       /\ ~NestedEmptyConstructible(p)) =>
                          ~has_default(field)
                   /\ has_default(field) =>
                          \/ p.default # ParameterEmpty
                          \/ p.kind \in {VAR_POSITIONAL, VAR_KEYWORD}
                          \/ NestedEmptyConstructible(p)

(***************************************************************************)
(* Further properties of the conversion run.                               *)
(***************************************************************************)
\* The native type of v is the one of the leaf descriptor d, Float taking
\* int and float.
NativeMatch(d, v) ==
    IF d.cls = "_Float" THEN v.t \in {"float", "int"}
    ELSE v.t = (IF d.klass = "Path" THEN "path" ELSE d.klass)

\* C15 as stated: under a leaf descriptor, to_jsony and from_jsony of a
\* value that is not None and whose native type does not match fail, for
\* each target; and Int.to_jsony(5, JSON) is 5.
C15LeafValidation ==
    /\ (dsc \in Leaves \ {Any_} /\ val # None /\ ~NativeMatch(dsc, val)) =>
           /\ pc = "encoded" => IsError(enc)
           /\ pc = "parsed" => IsError(dec)
    /\ (dsc = Int_ /\ val = IntV(5) /\ tgt = JSON /\ pc = "encoded") => enc = IntV(5)

(***************************************************************************)
(* Properties of the equality run.                                         *)
(***************************************************************************)
\* The kind of a descriptor: its class, and for a leaf its native type.
KindOf(d) == IF d.cls \in StructClasses THEN <<d.cls, "record">> ELSE <<d.cls, d.klass>>

\* C16 as stated: two descriptors are equal exactly when they are of the
\* same kind, have the same default policy, the same type parameters and
\* the same field schema, the order of the fields of a schema counting.
C16DescriptorEquality ==
    res.op = "eq" =>
        LET a == heap[1]
            b == heap[2]
        IN res.out.eq <=>
               /\ KindOf(a) = KindOf(b)
               /\ a.dflt = b.dflt
               /\ a.specialized = b.specialized /\ a.parameters = b.parameters
               /\ a.schema = b.schema

(***************************************************************************)
(* Properties of apply in the conversion run.                              *)
(***************************************************************************)
\* The children of value v as paired with the structure of descriptor d,
\* as <<descriptor, value>> in the order of the value: the items of a
\* list, each key of a map followed by its value, the items of a tuple,
\* the stored fields of a record; none for None and under a leaf.
Children(d, v) ==
    IF v = None THEN <<>>
    ELSE CASE d.cls = "_List" -> [i \in DOMAIN v.v |-> <<_get_parameter(d), v.v[i]>>]
           [] d.cls \in {"_Dict", "_DefaultDict"} ->
                  [i \in 1..(2 * Len(v.v)) |->
                      <<_get_parameters(d)[2 - (i % 2)], v.v[(i + 1) \div 2][2 - (i % 2)]>>]
           [] d.cls = "_Tuple" ->
                  [i \in DOMAIN v.v |->
                      <<IF d.specialized THEN d.parameters[i] ELSE Any_, v.v[i]>>]
           [] d.cls = "StructType" ->
                  [i \in DOMAIN v.v.fields |->
                      <<SchemaGet(d.schema, v.v.fields[i][1]), v.v.fields[i][2]>>]
           [] OTHER -> <<>>

\* The composite of the kind of v whose children are the given results;
\* a record either holding the results only or made by the constructor
\* of its class from the results (filled).
Rebuilt(d, v, results, filled) ==
    IF v = None THEN v
    ELSE CASE d.cls = "_List" -> ListV(results)
           [] d.cls \in {"_Dict", "_DefaultDict"} ->
                  DictV([i \in DOMAIN v.v |-> <<results[2 * i - 1], results[2 * i]>>])
           [] d.cls = "_Tuple" -> TupleV(results)
           [] d.cls = "StructType" ->
                  LET kwargs == [i \in DOMAIN v.v.fields |-> <<v.v.fields[i][1], results[i]>>]
                  IN IF filled THEN new(d, kwargs) ELSE StructV(SchemaNames(d.schema), kwargs)
           [] OTHER -> v

RECURSIVE Flatten(_)
Flatten(seqs) == IF seqs = <<>> THEN <<>> ELSE seqs[1] \o Flatten(Tail(seqs))

RECURSIVE Walk(_, _, _, _)
\* The bottom-up walk of v under d: the calls func(descriptor, value) in
\* order, those of each child before the one of its parent, a composite
\* being handed over as rebuilt from what func returned for its children.
Walk(d, v, f, filled) ==
    LET ch == Children(d, v)
        walks == [i \in DOMAIN ch |-> Walk(ch[i][1], ch[i][2], f, filled)]
        results == [i \in DOMAIN ch |->
                       Func(f, walks[i][Len(walks[i])][1], walks[i][Len(walks[i])][2])]
    IN Flatten(walks) \o << <<d, Rebuilt(d, v, results, filled)>> >>

\* What apply is to return: the result of func at the root.
AtRoot(walk, f) == Func(f, walk[Len(walk)][1], walk[Len(walk)][2])

\* C17 as stated: for a value valid under the descriptor, the calls of func
\* are those of the bottom-up walk, once for each node, children first,
\* each composite rebuilt from the results func returned for its children
\* and nothing else, and apply returns the result of func at the root; a
\* None is handed to func directly.
C17WalkFromResults ==
    (pc = "applied" /\ Valid(dsc, val)) =>
        LET walk == Walk(dsc, val, app.func, FALSE)
        IN app.out.log = walk /\ app.out.ret = AtRoot(walk, app.func)

\* C17 amended: the same, a record being rebuilt by the constructor of
\* its class from the results, which fills in the default of every field
\* that is absent from the record and has one.
C17BottomUpWalk ==
    (pc = "applied" /\ Valid(dsc, val)) =>
        LET walk == Walk(dsc, val, app.func, TRUE)
        IN /\ app.out.log = walk /\ app.out.ret = AtRoot(walk, app.func)
           /\ val = None => app.out.log = << <<dsc, None>> >>

\* apply of a record without its defaulted field age has walked the record
\* and handed func a record with age.
C17Witness ==
    /\ pc = "applied" /\ dsc = Person /\ Valid(dsc, val) /\ val # None
    /\ ~HasField(val.v.fields, "age") /\ HasField(val.v.fields, "name")
    /\ app.func = "inc" /\ Len(app.out.log) = Len(val.v.fields) + 1
    /\ ~IsError(app.out.ret) /\ HasField(app.out.ret.v.fields, "age")

(***************************************************************************)
(* Properties of the sharing run.                                          *)
(***************************************************************************)
\* What reading the field name of record r gives in the store h.
ReadIn(h, r, name) ==
    LET got == Struct__getattr__(dsc.schema, rec[r], name).out
    IN IF got.t = "ref" THEN h[got.v] ELSE got

\* What a field is to hold when it is not supplied: the value given when
\* the default was declared, or the empty value of the descriptor.
Declared(d) == IF d.dflt = EMPTY THEN new0(d) ELSE val[d.dflt.v]

\* C18 as stated: records constructed without supplying a defaulted list
\* or dict field do not share its value: a change in place made through
\* one record changes what is read from no other record, and a record
\* constructed later receives the default as it was declared, for concrete
\* defaults as well as for empty-constructible ones.
C18NoAliasing ==
    [][/\ (rec' = rec /\ heap' # heap) =>
              Cardinality({r \in DOMAIN rec :
                  \E name \in {"xs", "zs"} : ReadIn(heap', r, name) # ReadIn(heap, r, name)}) <= 1
       /\ Len(rec') > Len(rec) =>
              \A i \in DOMAIN dsc.schema :
                  dsc.schema[i][1] \in {"xs", "zs"} =>
                      LET got == FieldGet(rec'[Len(rec')].v.fields, dsc.schema[i][1], None)
                      IN heap'[got.v] = Declared(dsc.schema[i][2])]_vars

====
